---- MODULE Spec2Model ----
(***************************************************************************)
(* browser-keepalive: the refresh scheduler of src/src/cli.js (main, stop, *)
(* waitForIdle), the URL policy of src/src/utils.js (stripQueryParam,      *)
(* withCacheBuster) and session acquisition (launchWithOptionalInstall and *)
(* the install helpers of src/src/cli.js).                                 *)
(*                                                                         *)
(* Spec follows main() from the moment launchWithOptionalInstall settled,  *)
(* SpecIdle does so under --only-if-idle with an interval longer than the  *)
(* poll cap, and SpecLaunch follows launchWithOptionalInstall from its     *)
(* first launchEngine call to the first goto.  SpecEngine does the same    *)
(* with the steps of launchPlaywright / launchPuppeteer (src/src/          *)
(* engines.js) in place of the settling of launchEngine, SpecConfig        *)
(* follows the validation of the command line up to the first launch,      *)
(* SpecCdp the polling of the CDP endpoint between the launch and the      *)
(* first goto, and SpecUrl applies the URL functions to strings of every   *)
(* kind.  SpecMarker calls withCacheBuster again and again on one string,  *)
(* SpecApi calls launchEngine with any engine name and port, SpecRecord is *)
(* SpecIdle with and without the network recorder of src/src/cli.js, and   *)
(* SpecLive is main() without termination signals under weak fairness,     *)
(* for the properties that say something happens eventually.               *)
(*                                                                         *)
(* Node runs main() and every callback on one event loop: code between two *)
(* awaits that need a timer or I/O runs atomically, so each action below   *)
(* is one such run-to-completion step.  An await on a value that is ready  *)
(* in the same turn (session.currentUrl(), whose body is a synchronous     *)
(* page.url(); waitForIdle when no sleep is needed) resumes in a microtask *)
(* before any signal, timer or page event is delivered, and is therefore   *)
(* part of the step that reaches it.                                       *)
(***************************************************************************)
EXTENDS Integers, Sequences, FiniteSets, TLC

VARIABLES
    cfg,             \* config (cli.js:83-103), immutable after validation
    firstUrl,        \* cli.js:497
    pc,              \* where main() is suspended
    now,             \* Date.now()
    wakeAt,          \* expiry of the timer main() sleeps on
    stopped,         \* cli.js:512
    lastActivityAt,  \* cli.js:519
    curUrl,          \* what page.url() reports
    inFlight,        \* goto/reload calls issued and not yet settled
    session,         \* "none" | "open" | "closing" | "closed" | "closeFailed"
    closeCalls,      \* number of session.close() invocations
    stopRuns,        \* number of times the body of stop() ran (past its guard)
    signals,         \* SIGINT/SIGTERM delivered to the registered handlers
    proc,            \* "running" | "exited"
    exitCode,        \* exit status once proc = "exited", else NoCode
    cyc,             \* the current refresh cycle: what it has done so far
    lastCall,        \* the latest goto/reload issued
    idle,            \* history: the poll sleeps of the latest idle wait, and when
                     \* the interval sleep before it began
    opts,            \* engine, autoInstall, yes (cli.js:90-102), the terminal
                     \* and the package managers found on the machine
    lpc,             \* where launchWithOptionalInstall is suspended
    firstErr,        \* the error the first launchEngine call rejected with
    thrown,          \* the error that left launchWithOptionalInstall
    calls,           \* history: calls made by launchWithOptionalInstall
    consents,        \* history: what promptYesNo returned, in order
    raw,             \* the command line as commander hands it over (cli.js:79-80)
    arg,             \* a string handed to the URL functions of utils.js
    results,         \* history: the calls of those functions, in order
    cdp,             \* waitForJson (cli.js:458-479): startedAt, attempts, how and when it ended
    rec,             \* startNetworkRecorder (cli.js:291-394): whether it is on, the state
                     \* of its stream, and history: entries written
    eng              \* launchPlaywright / launchPuppeteer: the step of the call in progress,
                     \* the channels tried, and history: browsers launched, sessions created

vars == <<cfg, firstUrl, pc, now, wakeAt, stopped, lastActivityAt, curUrl,
          inFlight, session, closeCalls, stopRuns, signals, proc, exitCode,
          cyc, lastCall, idle, opts, lpc, firstErr, thrown, calls, consents,
          raw, arg, results, cdp, rec, eng>>

-----------------------------------------------------------------------------
(* Bounds of the model *)

MaxTicks == 5
MaxSignals == 2
MaxCycles == 2
MaxRnd == 0
MaxCalls == 3
MaxStamp == 2
MaxSuffix == 1
MaxEntries == 1

(* Program constants *)

PollCapMs == 5000
CdpPollMs == 250
CdpTimeoutMs == 10000
Base == 36
MsPerSecond == 1000

TickMs == PollCapMs \div 2
Rnds == 0..MaxRnd
IntervalChoices == {5}
IdleIntervalChoices == {10}
NoCode == 0 - 1

-----------------------------------------------------------------------------
(* URL strings.  A string is modelled by what new URL() makes of it: kind   *)
(* "url" parses, "about" is an about: URL (it parses too), "empty" is ""    *)
(* and "bad" does not parse.  q is the list of query parameters in order,   *)
(* norm tells whether the string already is in the form url.toString()     *)
(* writes (a string such as "https://x.com?a=b%20c" is not).               *)

Param(n, v) == [name |-> n, value |-> v]

Str(k, p, q, norm) == [kind |-> k, p |-> p, q |-> q, norm |-> norm]

AboutBlank == Str("about", 0, <<>>, TRUE)

EmptyStr == Str("empty", 0, <<>>, TRUE)

Parses(s) == s.kind \in {"url", "about"}

\* `${Date.now().toString(36)}${Math.random().toString(36).slice(2, 6)}`
\* a string of base-36 characters is the sequence of their values
RECURSIVE Digits(_)
Digits(n) == IF n < Base THEN <<n>> ELSE Digits(n \div Base) \o <<n % Base>>

\* n.toString(36); the value Base stands for the character "-"
ToBase36(n) == IF n < 0 THEN <<Base>> \o Digits(0 - n) ELSE Digits(n)

\* Math.random().toString(36).slice(2, 6) for a few values of Math.random():
\* 9/16 is "0.k9", 1/64 is "0.0k9", 1/2 is "0.i", 1/4 is "0.9"
Suffix(r) ==
    CASE r = 0 -> <<20, 9>>
      [] r = 1 -> <<0, 20, 9>>
      [] r = 2 -> <<18>>
      [] OTHER -> <<9>>

MarkerValue(t, r) == ToBase36(t) \o Suffix(r)

Other == Param("other", <<1>>)

\* a marker left by an earlier run of the program
Stale == Param("_cb", MarkerValue(0 - TickMs, 0))

RECURSIVE DeleteAll(_, _)
DeleteAll(q, n) ==
    IF q = <<>> THEN <<>>
    ELSE IF Head(q).name = n THEN DeleteAll(Tail(q), n)
    ELSE <<Head(q)>> \o DeleteAll(Tail(q), n)

HasParam(q, n) == \E i \in 1..Len(q) : q[i].name = n

FirstIndex(q, n) == CHOOSE i \in 1..Len(q) : q[i].name = n /\ \A j \in 1..(i-1) : q[j].name # n

\* URLSearchParams.set: overwrite the first occurrence and drop the others,
\* or append when there is none
SetParam(q, n, v) ==
    IF HasParam(q, n)
    THEN LET i == FirstIndex(q, n)
         IN  SubSeq(q, 1, i-1) \o <<Param(n, v)>> \o DeleteAll(SubSeq(q, i+1, Len(q)), n)
    ELSE Append(q, Param(n, v))

\* url.search is cleared instead of deleting the one parameter
stripQueryParam_clearsQuery(urlString, param) ==
    IF Parses(urlString)
    THEN [urlString EXCEPT !.q = <<>>, !.norm = TRUE]
    ELSE urlString

\* searchParams.delete removes the first occurrence only
stripQueryParam_firstOnly(urlString, param) ==
    IF Parses(urlString)
    THEN [urlString EXCEPT
            !.q = IF HasParam(@, param)
                  THEN SubSeq(@, 1, FirstIndex(@, param) - 1)
                       \o SubSeq(@, FirstIndex(@, param) + 1, Len(@))
                  ELSE @,
            !.norm = TRUE]
    ELSE urlString

\* without the try: new URL() raises
stripQueryParam_noCatch(urlString, param) ==
    IF Parses(urlString)
    THEN [urlString EXCEPT !.q = DeleteAll(@, param), !.norm = TRUE]
    ELSE Str("exception", 0, <<>>, TRUE)

stripQueryParam(urlString, param) ==
    IF Parses(urlString)
    THEN [urlString EXCEPT !.q = DeleteAll(@, param), !.norm = TRUE]
    ELSE urlString

\* url.search is overwritten with the marker
withCacheBuster_replacesQuery(urlString, t, r) ==
    LET base == stripQueryParam(urlString, "_cb")
    IN  IF Parses(base)
        THEN [base EXCEPT !.q = <<Param("_cb", MarkerValue(t, r))>>, !.norm = TRUE]
        ELSE urlString

withCacheBuster(urlString, t, r) ==
    LET base == stripQueryParam(urlString, "_cb")
    IN  IF Parses(base)
        THEN [base EXCEPT !.q = SetParam(@, "_cb", MarkerValue(t, r)), !.norm = TRUE]
        ELSE urlString

validateUrlString(value) == [value EXCEPT !.norm = TRUE]

Other2 == Param("x", <<2>>)

\* query strings: none, markers in every position, other parameters in
\* both orders and repeated
Queries ==
    { <<>>, <<Stale>>, <<Other>>, <<Other, Other2>>, <<Other2, Other>>,
      <<Stale, Other>>, <<Other, Stale>>, <<Stale, Stale>>,
      <<Other2, Stale, Other, Stale>>, <<Stale, Other, Other>> }

\* strings new URL() rejects: "", one without a scheme, one without a scheme
\* that has the text of a query with a marker
Malformed ==
    { EmptyStr, Str("bad", 0, <<>>, FALSE), Str("bad", 0, <<Stale, Other>>, FALSE) }

\* the strings the URL functions are applied to
UrlStrings ==
    {Str("url", 1, q, n) : q \in Queries, n \in BOOLEAN}
    \cup {AboutBlank, Str("about", 0, <<Stale>>, FALSE)}
    \cup Malformed

\* Date.now() at the calls of withCacheBuster
Stamps == 1..MaxStamp

\* what the user may pass as <url> (valid absolute URLs only)
CliUrls == { Str("url", 1, <<Stale, Other>>, FALSE) }

\* where in-page navigation may take the page
PageUrls ==
    { AboutBlank, EmptyStr, Str("url", 2, <<Stale, Other, Stale>>, FALSE) }


-----------------------------------------------------------------------------
(* The command line (cli.js:79-107).  A value is undefined, null or a      *)
(* string; a number is NaN, an infinity or a finite value, kept in          *)
(* thousandths so that fractions stay integers.                            *)

MaxPort == 65535

Undefined == [t |-> "undefined", s |-> ""]

NullValue == [t |-> "null", s |-> ""]

Text(s) == [t |-> "string", s |-> s]

Num(kind, milli) == [kind |-> kind, milli |-> milli]

Null == Num("null", 0)

\* Number(value) for the strings of the model
Number(value) ==
    CASE value.s = "60" -> Num("finite", 60 * 1000)
      [] value.s = " 5 " -> Num("finite", 5 * 1000)
      [] value.s = "0.5" -> Num("finite", 500)
      [] value.s = "0" -> Num("finite", 0)
      [] value.s = "" -> Num("finite", 0)
      [] value.s = "-5" -> Num("finite", 0 - 5 * 1000)
      [] value.s = "Infinity" -> Num("infinity", 0)
      [] value.s = "1" -> Num("finite", 1000)
      [] value.s = "9222" -> Num("finite", 9222 * 1000)
      [] value.s = "65535" -> Num("finite", MaxPort * 1000)
      [] value.s = "65536" -> Num("finite", (MaxPort + 1) * 1000)
      [] value.s = "8080.5" -> Num("finite", 8080 * 1000 + 500)
      [] value.s = "1000000" -> Num("finite", 1000000 * 1000)
      [] OTHER -> Num("nan", 0)

isFinite(n) == n.kind = "finite"

isInteger(n) == n.kind = "finite" /\ n.milli % 1000 = 0

\* the outcome of a call: a value, or an exception
Value(v) == [thrown |-> FALSE, value |-> v]

Raised == [thrown |-> TRUE, value |-> Null]

\* utils.js:11-17
parseInterval(value) ==
    LET n == Number(value)
    IN  IF ~isFinite(n) \/ n.milli <= 0 THEN Raised ELSE Value(n)

\* utils.js:24-29
validateEngine(value) ==
    IF value # "playwright" /\ value # "puppeteer" THEN Raised ELSE Value(value)

\* utils.js:37-43: new URL(value) throws
urlRejected(value) == ~Parses(value)

\* the upper limit is not tested
normalizePort_noUpperLimit(value) ==
    IF value.t \in {"undefined", "null"}
    THEN Value(Null)
    ELSE LET n == Number(value)
         IN  IF ~isInteger(n) \/ n.milli <= 0
             THEN Raised
             ELSE Value(n)

\* engines.js:40-49
normalizePort(value) ==
    IF value.t \in {"undefined", "null"}
    THEN Value(Null)
    ELSE LET n == Number(value)
         IN  IF ~isInteger(n) \/ n.milli <= 0 \/ n.milli > MaxPort * 1000
             THEN Raised
             ELSE Value(n)

\* cli.js:109-116
parsePositiveInt(value) ==
    IF value.t \in {"undefined", "null"} \/ value = Text("")
    THEN Value(Null)
    ELSE LET n == Number(value)
         IN  IF ~isInteger(n) \/ n.milli <= 0 THEN Raised ELSE Value(n)

BadStr == Str("bad", 0, <<>>, FALSE)

NoRaw == [url |-> EmptyStr, interval |-> Undefined, engine |-> "",
          cdpPort |-> Undefined, recordMaxBytes |-> Undefined]

\* what the user may type
RawOptions ==
    [url : CliUrls \cup {AboutBlank, BadStr, EmptyStr},
     interval : {Text(t) : t \in {"60", " 5 ", "0.5", "0", "-5", "", "abc", "Infinity"}},
     engine : {"playwright", "puppeteer", "Playwright", "chromium"},
     cdpPort : {Undefined, NullValue} \cup
               {Text(t) : t \in {"9222", "1", "65535", "65536", "0", "-5", "8080.5",
                                 "abc", ""}},
     recordMaxBytes : {Text("1000000"), Text("0")}]

-----------------------------------------------------------------------------
(* Session acquisition: launchWithOptionalInstall (cli.js:396-421) and the  *)
(* install helpers.  An error is the call that raised it and its message;   *)
(* a message is the set of the fragments of text the program looks for or   *)
(* writes.                                                                 *)

Engines == {"playwright", "puppeteer"}

Err(from, msg) == [from |-> from, msg |-> msg]

NoErr == Err("none", {})

CannotFindPackage(engine) ==
    IF engine = "playwright" THEN "Cannot find package 'playwright'"
    ELSE "Cannot find package 'puppeteer'"

FailedToImport(engine) ==
    IF engine = "playwright" THEN "Failed to import 'playwright'"
    ELSE "Failed to import 'puppeteer'"

\* message.toLowerCase(): the lower-case search strings a fragment contains
LowerParts(f) ==
    CASE f \in {"Failed to import 'playwright'", "Cannot find package 'playwright'"} ->
             {"playwright"}
      [] f = "Executable doesn't exist at" -> {"executable doesn't exist"}
      [] f = "npx playwright install" -> {"playwright", "playwright install"}
      [] f = "Could not find Chrome" -> {"could not find chrome"}
      [] f = "Chromium distribution 'chrome' is not found" ->
             {"chromium distribution 'chrome' is not found"}
      [] f = "Chromium distribution 'msedge' is not found" ->
             {"chromium distribution 'msedge' is not found"}
      [] OTHER -> {}

includes(msg, s) == s \in msg

lowerIncludes(msg, s) == \E f \in msg : s \in LowerParts(f)

\* only the message of node is looked for
isMissingEngineError_packageOnly(err, engine) ==
    includes(err.msg, CannotFindPackage(engine))

\* utils.js:93-96
isMissingEngineError(err, engine) ==
    \/ includes(err.msg, CannotFindPackage(engine))
    \/ includes(err.msg, FailedToImport(engine))

isPlaywrightMissingBrowserError(err) ==
    /\ lowerIncludes(err.msg, "playwright")
    /\ \/ lowerIncludes(err.msg, "executable doesn't exist")
       \/ lowerIncludes(err.msg, "executable doesnt exist")
       \/ lowerIncludes(err.msg, "playwright install")

\* not in utils.js: the message names the browser that could not be found
isPuppeteerMissingBrowserError(err) ==
    lowerIncludes(err.msg, "could not find chrome")

\* engines.js:122-129: the import of the engine failed
ImportFailure(engine) ==
    {FailedToImport(engine), "Install it in this project", CannotFindPackage(engine)}

\* engines.js:71-76: the text of the cause, when it has one, is appended
withCause(message, cause) == message \cup cause

\* what import() of the engine package may reject with: the package is not
\* there, the package does not load, a rejection without a message
ImportCauses(engine) ==
    { {CannotFindPackage(engine)}, {"Unexpected token"}, {} }

\* engines.js:125-129, 203-207: what launchPlaywright / launchPuppeteer
\* throw when the import fails
ImportFailures(engine) ==
    {withCause({FailedToImport(engine), "Install it in this project"}, cause) :
        cause \in ImportCauses(engine)}

OtherFailure == {"Timeout"}

\* what launchEngine may reject with
LaunchMessages ==
    {ImportFailure(e) : e \in Engines} \cup
    { {"Executable doesn't exist at", "npx playwright install"},
      {"Executable doesn't exist at"},
      {"Could not find Chrome"},
      OtherFailure }

\* engines.js:6-9
isPuppeteerCouldNotFindChromeError(err) ==
    lowerIncludes(err.msg, "could not find chrome")

\* engines.js:17-28
isPlaywrightMissingSystemChannelError(err, channel) ==
    /\ channel # "managed"
    /\ \/ lowerIncludes(err.msg, IF channel = "chrome"
                                  THEN "chromium distribution 'chrome' is not found"
                                  ELSE "chromium distribution 'msedge' is not found")
       \/ lowerIncludes(err.msg, "executable doesn't exist")
       \/ lowerIncludes(err.msg, "executable does not exist")
       \/ lowerIncludes(err.msg, "channel") /\ lowerIncludes(err.msg, "not supported")

\* Edge is preferred to Chrome
Channels_edgeFirst(engine) ==
    IF engine = "playwright" THEN <<"msedge", "chrome", "managed">>
    ELSE <<"chrome", "managed">>

\* engines.js:30-33, 177-179 and 11-15, 236-243: the channels in the order
\* they are tried; "managed" is the launch without a channel
Channels(engine) ==
    IF engine = "playwright" THEN <<"chrome", "msedge", "managed">>
    ELSE <<"chrome", "managed">>

\* what chromium.launch / puppeteer.launch, newContext and newPage may
\* reject with
EngineMessages ==
    LaunchMessages \cup
    { {"Chromium distribution 'chrome' is not found"},
      {"Chromium distribution 'msedge' is not found"} }

\* the branch the catch block of launchWithOptionalInstall takes
FailureClass(err, engine) ==
    IF isMissingEngineError(err, engine) THEN "missingEngine"
    ELSE IF engine = "playwright" /\ isPlaywrightMissingBrowserError(err) THEN "missingBrowser"
    ELSE IF engine = "puppeteer" /\ isPuppeteerMissingBrowserError(err) THEN "missingBrowser"
    ELSE "other"

\* fragments that tell the user what to run
Remediations ==
    {"Install it in this project", "Install pnpm or npm, then install the engine",
     "Install it with:", "Run the browser install manually", "Run the browser install and retry"}

PlainOpts == [engine |-> "playwright", autoInstall |-> FALSE, yes |-> FALSE,
              isTTY |-> FALSE, found |-> {}, cdpPort |-> Null]

LaunchOpts ==
    [engine : Engines, autoInstall : BOOLEAN, yes : BOOLEAN, isTTY : BOOLEAN,
     found : SUBSET {"pnpm", "npm"}, cdpPort : {Null}]

LaunchConfigs ==
    [url : {validateUrlString(u) : u \in CliUrls},
     intervalSeconds : IntervalChoices,
     cacheBust : {TRUE}, alwaysReset : {FALSE}, onlyIfIdle : {FALSE}]

FirstCall == [launch |-> 1, ensure |-> 0, prompt |-> 0, engineInstall |-> 0,
              browserInstall |-> 0, failedInstall |-> 0, ran |-> <<>>]

\* what the user may type at a prompt, trimmed and in lower case
Answers == {"", "y", "yes", "n"}

\* result.status of an install command
ExitStatuses == {0, 1}

\* cli.js:151-159: pnpm add <engine> / npm i <engine>
runInstallEngine(pm, engine) == <<pm, "add", engine>>

\* cli.js:161-169: pnpm exec / npx playwright install chromium
runInstallPlaywrightChromium(pm) == <<pm, "playwright install", "chromium">>

\* cli.js:171-179: pnpm exec / npx puppeteer browsers install chrome
runInstallPuppeteerChrome(pm) == <<pm, "puppeteer browsers install", "chrome">>

\* cli.js:123-127
pickPackageManager ==
    IF "pnpm" \in opts.found THEN "pnpm"
    ELSE IF "npm" \in opts.found THEN "npm"
    ELSE "none"

\* the terminal is not looked at: the answer is read whatever the input is
promptYesNo_noTtyCheck(answer, defaultYes) ==
    IF opts.yes THEN TRUE
    ELSE IF answer = "" THEN defaultYes
    ELSE answer \in {"y", "yes"}

\* cli.js:129-149
promptYesNo(answer, defaultYes) ==
    IF opts.yes THEN TRUE
    ELSE IF ~opts.isTTY THEN FALSE
    ELSE IF answer = "" THEN defaultYes
    ELSE answer \in {"y", "yes"}

-----------------------------------------------------------------------------
intervalMs == cfg.intervalSeconds * MsPerSecond

\* the model follows the program for MaxTicks half intervals
MaxTime == MaxTicks * (intervalMs \div 2)

baseUrl == IF cfg.cacheBust THEN stripQueryParam(cfg.url, "_cb") ELSE cfg.url

NoCall == [kind |-> "none", target |-> EmptyStr, page |-> EmptyStr,
           read |-> FALSE, at |-> 0, cycle |-> 0]

NoCycle == [n |-> 0, issued |-> 0, failed |-> FALSE, urlFail |-> FALSE]

NoWait == [polls |-> 0, enteredAt |-> 0, sleptFrom |-> 0]

LoopNavPcs == {"gotoReset", "gotoCb", "reload"}

TimerPcs == {"sleep", "idleSleep"}

\* cli.js:83-103: the validated command line
Configs ==
    [url : {validateUrlString(u) : u \in CliUrls},
     intervalSeconds : IntervalChoices,
     cacheBust : BOOLEAN, alwaysReset : BOOLEAN, onlyIfIdle : BOOLEAN]

\* --only-if-idle with an interval longer than the poll cap of waitForIdle
IdleConfigs ==
    [url : {validateUrlString(u) : u \in CliUrls},
     intervalSeconds : IdleIntervalChoices,
     cacheBust : {FALSE}, alwaysReset : {FALSE}, onlyIfIdle : {TRUE}]

\* printCdpEndpoints has not been called
NoCdp == [startedAt |-> 0, attempts |-> 0, got |-> "none", endedAt |-> 0]

\* launchEngine has been called for the first time
NoEngine == [step |-> "import", i |-> 1, imports |-> 0, tried |-> <<>>,
             err |-> {}, browsers |-> 0, sessions |-> 0]

\* --record-network is not given: startNetworkRecorder returns null
NoRecorder == [on |-> FALSE, stream |-> "none", entries |-> 0]

\* cli.js:295-299: the directory is there and the stream is created
Recording == [on |-> TRUE, stream |-> "open", entries |-> 0]

\* nothing has happened yet
Fresh ==
    /\ wakeAt = 0
    /\ stopped = FALSE
    /\ lastActivityAt = 0
    /\ curUrl = AboutBlank
    /\ inFlight = 0
    /\ session = "none"
    /\ closeCalls = 0
    /\ stopRuns = 0
    /\ signals = 0
    /\ proc = "running"
    /\ exitCode = NoCode
    /\ cyc = NoCycle
    /\ lastCall = NoCall
    /\ idle = NoWait
    /\ cdp = NoCdp
    /\ eng = NoEngine

\* the state in which main() starts under configuration c, whatever
\* --record-network says
StartWith(c) ==
    /\ cfg = c
    /\ now = 0
    /\ \E r \in Rnds :
         firstUrl = IF cfg.cacheBust
                    THEN withCacheBuster(stripQueryParam(cfg.url, "_cb"), 0, r)
                    ELSE cfg.url
    /\ pc = "launch"
    /\ raw = NoRaw
    /\ arg = EmptyStr /\ results = <<>>
    /\ Fresh

\* the state in which main() starts under configuration c without
\* --record-network
Start(c) ==
    /\ StartWith(c)
    /\ rec = NoRecorder

\* launchWithOptionalInstall has called launchEngine for the first time
Acquiring(o) ==
    /\ opts = o
    /\ lpc = "launch1"
    /\ firstErr = NoErr
    /\ thrown = NoErr
    /\ calls = FirstCall
    /\ consents = <<>>

\* launchWithOptionalInstall has settled at its first attempt
Acquired(ok) ==
    /\ opts = PlainOpts
    /\ lpc = IF ok THEN "returned" ELSE "threw"
    /\ firstErr = (IF ok THEN NoErr ELSE Err("launch1", OtherFailure))
    /\ thrown = firstErr
    /\ calls = FirstCall
    /\ consents = <<>>

Init == \E c \in Configs, ok \in BOOLEAN : Start(c) /\ Acquired(ok)

InitIdle == \E c \in IdleConfigs, ok \in BOOLEAN : Start(c) /\ Acquired(ok)

InitLaunch == \E c \in LaunchConfigs, o \in LaunchOpts : Start(c) /\ Acquiring(o)

\* launchWithOptionalInstall has not been called
NotCalled ==
    [launch |-> 0, ensure |-> 0, prompt |-> 0, engineInstall |-> 0,
     browserInstall |-> 0, failedInstall |-> 0, ran |-> <<>>]

\* config before cli.js:84
Unparsed ==
    [url |-> EmptyStr, intervalSeconds |-> Null, cacheBust |-> FALSE,
     alwaysReset |-> FALSE, onlyIfIdle |-> FALSE]

\* the module starts to run: program.parse() has returned
InitConfig ==
    /\ raw \in RawOptions
    /\ arg = EmptyStr /\ results = <<>>
    /\ cfg = Unparsed
    /\ firstUrl = EmptyStr
    /\ now = 0
    /\ pc = "parse"
    /\ Fresh
    /\ rec = NoRecorder
    /\ opts = PlainOpts
    /\ lpc = "notCalled"
    /\ firstErr = NoErr
    /\ thrown = NoErr
    /\ calls = NotCalled
    /\ consents = <<>>

-----------------------------------------------------------------------------
(* The control state of main(): every continuation below fixes these.      *)

ProcStays == proc' = proc /\ exitCode' = exitCode

\* the loop goes round without sleeping
LoopHead_noSleep ==
    IF stopped
    THEN pc' = "done" /\ wakeAt' = wakeAt /\ idle' = idle
    ELSE /\ pc' = "sleep" /\ wakeAt' = now
         /\ idle' = [NoWait EXCEPT !.sleptFrom = now]

\* cli.js:555-556: the loop condition, then the interval sleep
LoopHead ==
    IF stopped
    THEN pc' = "done" /\ wakeAt' = wakeAt /\ idle' = idle
    ELSE /\ pc' = "sleep" /\ wakeAt' = now + intervalMs
         /\ idle' = [NoWait EXCEPT !.sleptFrom = now]

\* an exception leaves main(): `await main()` rejects and node exits with 1
MainThrows ==
    /\ pc' = "failed" /\ wakeAt' = wakeAt /\ idle' = idle
    /\ proc' = "exited" /\ exitCode' = 1

\* the call is issued but main() does not wait for it
Issue_noAwait(kind, at, target, read, fl, c) ==
    /\ inFlight' = fl + 1
    /\ lastCall' = [kind |-> kind, target |-> target, page |-> curUrl,
                    read |-> read, at |-> now, cycle |-> c.n]
    /\ cyc' = [c EXCEPT !.issued = @ + 1]
    /\ ProcStays
    /\ LoopHead

\* session.goto / session.reload is called and awaited at position `at`
Issue(kind, at, target, read, fl, c) ==
    /\ pc' = at /\ wakeAt' = wakeAt /\ idle' = idle
    /\ inFlight' = fl + 1
    /\ lastCall' = [kind |-> kind, target |-> target, page |-> curUrl,
                    read |-> read, at |-> now, cycle |-> c.n]
    /\ cyc' = [c EXCEPT !.issued = @ + 1]
    /\ ProcStays

\* no try/catch around the refresh: the rejection leaves main()
Catch_rethrow(fl, c) ==
    /\ inFlight' = fl
    /\ lastCall' = lastCall
    /\ cyc' = [c EXCEPT !.failed = TRUE]
    /\ MainThrows

\* cli.js:587-589: the catch block, then back to the loop condition
Catch(fl, c) ==
    /\ inFlight' = fl
    /\ lastCall' = lastCall
    /\ cyc' = [c EXCEPT !.failed = TRUE]
    /\ ProcStays
    /\ LoopHead

\* the try block ends (continue, or its last statement)
Completed(fl, c) ==
    /\ inFlight' = fl
    /\ lastCall' = lastCall
    /\ cyc' = c
    /\ ProcStays
    /\ LoopHead

\* the reset branch follows the page instead of the configured URL
ResetTarget_fromCurrent(r) ==
    IF cfg.cacheBust THEN withCacheBuster(curUrl, now, r) ELSE curUrl

\* cli.js:570
ResetTarget(r) == IF cfg.cacheBust THEN withCacheBuster(baseUrl, now, r) ELSE baseUrl

\* no fallback to baseUrl for a blank page
CacheBustTarget_noFallback(current, r) ==
    withCacheBuster(stripQueryParam(current, "_cb"), now, r)

\* cli.js:578-579
CacheBustTarget(current, r) ==
    LET currentBase == IF current # EmptyStr /\ current # AboutBlank
                       THEN stripQueryParam(current, "_cb")
                       ELSE baseUrl
    IN  withCacheBuster(currentBase, now, r)

\* the final reload is replaced by a goto to the URL the page reports
TryRefresh_noReload(entry, fl, c) ==
    IF entry = "top" /\ cfg.alwaysReset
    THEN \E r \in Rnds : Issue("goto", "gotoReset", ResetTarget(r), FALSE, fl, c)
    ELSE IF entry \in {"top", "cb"} /\ cfg.cacheBust
    THEN \E ok \in BOOLEAN, r \in Rnds :
            IF ok
            THEN Issue("goto", "gotoCb", CacheBustTarget(curUrl, r), TRUE, fl, c)
            ELSE Catch(fl, [c EXCEPT !.urlFail = TRUE])
    ELSE Issue("goto", "reload", curUrl, TRUE, fl, c)

\* cli.js:568-586: the try block, entered at its top ("top"), at the
\* cacheBust test ("cb") or at the reload ("rl")
TryRefresh(entry, fl, c) ==
    IF entry = "top" /\ cfg.alwaysReset
    THEN \E r \in Rnds : Issue("goto", "gotoReset", ResetTarget(r), FALSE, fl, c)
    ELSE IF entry \in {"top", "cb"} /\ cfg.cacheBust
    THEN \E ok \in BOOLEAN, r \in Rnds :
            IF ok
            THEN Issue("goto", "gotoCb", CacheBustTarget(curUrl, r), TRUE, fl, c)
            ELSE Catch(fl, [c EXCEPT !.urlFail = TRUE])
    ELSE Issue("reload", "reload", EmptyStr, FALSE, fl, c)

\* the `continue` statements are missing: control falls into the next branch
AfterSettle_noContinue(p) ==
    IF p = "gotoReset" THEN "cb" ELSE IF p = "gotoCb" THEN "rl" ELSE "loop"

\* the statement that follows a resolved await: continue (573, 582) or the
\* end of the try block (586) all lead to the loop condition
AfterSettle(p) == "loop"

NewCycle == [n |-> cyc.n + 1, issued |-> 0, failed |-> FALSE, urlFail |-> FALSE]

\* the wait sleeps once and returns without looking at the activity again
waitForIdle_sleepsOnce ==
    IF stopped
    THEN Completed(inFlight, cyc)
    ELSE LET idleForMs == now - lastActivityAt
             remainingMs == intervalMs - idleForMs
             sleepMs == IF remainingMs < PollCapMs THEN remainingMs ELSE PollCapMs
         IN  IF idleForMs >= intervalMs \/ idle.polls > 0
             THEN TryRefresh("top", inFlight, NewCycle)
             ELSE /\ pc' = "idleSleep" /\ wakeAt' = now + sleepMs
                  /\ idle' = [polls |-> idle.polls + 1,
                              enteredAt |-> IF idle.polls = 0 THEN now
                                            ELSE idle.enteredAt,
                              sleptFrom |-> idle.sleptFrom]
                  /\ UNCHANGED <<inFlight, lastCall, cyc, proc, exitCode>>

\* the poll sleep is not capped: the wait sleeps for all the remaining time
waitForIdle_noCap ==
    IF stopped
    THEN Completed(inFlight, cyc)
    ELSE LET idleForMs == now - lastActivityAt
             remainingMs == intervalMs - idleForMs
         IN  IF idleForMs >= intervalMs
             THEN TryRefresh("top", inFlight, NewCycle)
             ELSE /\ pc' = "idleSleep" /\ wakeAt' = now + remainingMs
                  /\ idle' = [polls |-> idle.polls + 1,
                              enteredAt |-> IF idle.polls = 0 THEN now
                                            ELSE idle.enteredAt,
                              sleptFrom |-> idle.sleptFrom]
                  /\ UNCHANGED <<inFlight, lastCall, cyc, proc, exitCode>>

\* the wait gives up once it has lasted a whole interval
waitForIdle_maxWait ==
    IF stopped
    THEN Completed(inFlight, cyc)
    ELSE LET idleForMs == now - lastActivityAt
             remainingMs == intervalMs - idleForMs
             sleepMs == IF remainingMs < PollCapMs THEN remainingMs ELSE PollCapMs
             waited == IF idle.polls = 0 THEN 0 ELSE now - idle.enteredAt
         IN  IF idleForMs >= intervalMs \/ waited >= intervalMs
             THEN TryRefresh("top", inFlight, NewCycle)
             ELSE /\ pc' = "idleSleep" /\ wakeAt' = now + sleepMs
                  /\ idle' = [polls |-> idle.polls + 1,
                              enteredAt |-> IF idle.polls = 0 THEN now
                                            ELSE idle.enteredAt,
                              sleptFrom |-> idle.sleptFrom]
                  /\ UNCHANGED <<inFlight, lastCall, cyc, proc, exitCode>>

\* the idle time is counted from the last poll: after the first poll the
\* page never looks quiet
waitForIdle_countsPolls ==
    IF stopped
    THEN Completed(inFlight, cyc)
    ELSE LET idleForMs == IF idle.polls > 0 THEN 0 ELSE now - lastActivityAt
             remainingMs == intervalMs - idleForMs
             sleepMs == IF remainingMs < PollCapMs THEN remainingMs ELSE PollCapMs
         IN  IF idleForMs >= intervalMs
             THEN TryRefresh("top", inFlight, NewCycle)
             ELSE /\ pc' = "idleSleep" /\ wakeAt' = now + sleepMs
                  /\ idle' = [polls |-> idle.polls + 1,
                              enteredAt |-> IF idle.polls = 0 THEN now
                                            ELSE idle.enteredAt,
                              sleptFrom |-> idle.sleptFrom]
                  /\ UNCHANGED <<inFlight, lastCall, cyc, proc, exitCode>>

\* cli.js:443-456, then 565: one pass of waitForIdle's loop
waitForIdle ==
    IF stopped
    THEN Completed(inFlight, cyc)
    ELSE LET idleForMs == now - lastActivityAt
             remainingMs == intervalMs - idleForMs
             sleepMs == IF remainingMs < PollCapMs THEN remainingMs ELSE PollCapMs
         IN  IF idleForMs >= intervalMs
             THEN TryRefresh("top", inFlight, NewCycle)
             ELSE /\ pc' = "idleSleep" /\ wakeAt' = now + sleepMs
                  /\ idle' = [polls |-> idle.polls + 1,
                              enteredAt |-> IF idle.polls = 0 THEN now
                                            ELSE idle.enteredAt,
                              sleptFrom |-> idle.sleptFrom]
                  /\ UNCHANGED <<inFlight, lastCall, cyc, proc, exitCode>>

-----------------------------------------------------------------------------
(* Actions *)

Acq == <<opts, lpc, firstErr, thrown, calls, consents>>

\* what only the other specifications look at
Aux == <<raw, arg, results, cdp, rec, eng>>

Env == <<cfg, firstUrl, Acq, Aux>>

StopState == <<stopped, session, closeCalls, stopRuns, signals>>

\* what session acquisition leaves alone
Sched == <<cfg, firstUrl, pc, now, wakeAt, idle, StopState, lastActivityAt,
           curUrl, inFlight, proc, exitCode, cyc, lastCall, Aux>>

\* launchWithOptionalInstall resolves with the session
Return ==
    /\ lpc' = "returned"
    /\ thrown' = thrown

\* launchWithOptionalInstall rejects with err
Throw(err) ==
    /\ lpc' = "threw"
    /\ thrown' = err

\* the failed launch is not tried again: the first error is thrown
Retry_rethrow(c) ==
    /\ Throw(firstErr)
    /\ calls' = c

\* cli.js:405, 410, 415: the second launchEngine call
Retry(c) ==
    /\ lpc' = "launch2"
    /\ thrown' = thrown
    /\ calls' = [c EXCEPT !.launch = @ + 1]

\* cli.js:181-188, 229-233, 246-250: the helper starts: it looks for a
\* package manager and asks for consent
ensureStart(prompt, advice) ==
    IF pickPackageManager = "none"
    THEN /\ Throw(Err("recovery", {"No supported package manager found", advice}))
         /\ calls' = [calls EXCEPT !.ensure = @ + 1]
    ELSE /\ lpc' = prompt
         /\ thrown' = thrown
         /\ calls' = [calls EXCEPT !.ensure = @ + 1, !.prompt = @ + 1]

\* --auto-install is not looked at
LaunchCatch_alwaysRecovers(err) ==
    IF isMissingEngineError(err, opts.engine)
    THEN ensureStart("promptEngine", "Install pnpm or npm, then install the engine")
    ELSE IF opts.engine = "playwright" /\ isPlaywrightMissingBrowserError(err)
    THEN ensureStart("promptPlaywrightBinary", "Run the browser install manually")
    ELSE IF opts.engine = "puppeteer" /\ isPuppeteerMissingBrowserError(err)
    THEN ensureStart("promptPuppeteerBinary", "Run the browser install manually")
    ELSE Throw(err) /\ calls' = calls

\* cli.js:399-420: the catch block, up to the first await of the helper
LaunchCatch(err) ==
    IF ~opts.autoInstall
    THEN Throw(err) /\ calls' = calls
    ELSE IF isMissingEngineError(err, opts.engine)
    THEN ensureStart("promptEngine", "Install pnpm or npm, then install the engine")
    ELSE IF opts.engine = "playwright" /\ isPlaywrightMissingBrowserError(err)
    THEN ensureStart("promptPlaywrightBinary", "Run the browser install manually")
    ELSE IF opts.engine = "puppeteer" /\ isPuppeteerMissingBrowserError(err)
    THEN ensureStart("promptPuppeteerBinary", "Run the browser install manually")
    ELSE Throw(err) /\ calls' = calls

\* cli.js:398: launchEngine resolved, or rejected with message m, at its
\* first call
Settled1(ok, m) ==
    IF ok
    THEN Return /\ UNCHANGED <<firstErr, calls>>
    ELSE /\ firstErr' = Err("launch1", m)
         /\ LaunchCatch(Err("launch1", m))

\* cli.js:398: the first launchEngine call settles
Launch1Settle ==
    /\ lpc = "launch1"
    /\ \E ok \in BOOLEAN, m \in LaunchMessages : Settled1(ok, m)
    /\ UNCHANGED <<Sched, opts, consents>>

\* cli.js:189-199: the answer to "Install it now?", then the install of the
\* engine package and the question about the browser binaries
PromptEngine ==
    /\ lpc = "promptEngine"
    /\ \E answer \in Answers, status \in ExitStatuses :
         LET ok == promptYesNo(answer, FALSE)
             c == [calls EXCEPT !.engineInstall = @ + 1,
                                !.ran = Append(@, runInstallEngine(pickPackageManager,
                                                                   opts.engine))]
         IN  /\ consents' = Append(consents, ok)
             /\ IF ~ok
                THEN /\ Throw(Err("recovery", {"Missing engine", "Install it with:"}))
                     /\ calls' = calls
                ELSE IF status # 0
                THEN /\ Throw(Err("recovery", {"Failed to install"}))
                     /\ calls' = [c EXCEPT !.failedInstall = @ + 1]
                ELSE /\ lpc' = "promptBrowsers"
                     /\ thrown' = thrown
                     /\ calls' = [c EXCEPT !.prompt = @ + 1]
    /\ UNCHANGED <<Sched, opts, firstErr>>

\* the exit status of the browser install is not looked at
ensureBrowsers_ignoresStatus(c, ok, status) ==
    LET cmd == IF opts.engine = "playwright"
               THEN runInstallPlaywrightChromium(pickPackageManager)
               ELSE runInstallPuppeteerChrome(pickPackageManager)
        d == [c EXCEPT !.browserInstall = @ + 1, !.ran = Append(@, cmd),
                       !.failedInstall = IF status # 0 THEN @ + 1 ELSE @]
    IN  IF ~ok THEN Retry(c) ELSE Retry(d)

\* cli.js:201-226, 405: after the second answer of ensureEngineInstalled
ensureBrowsers(c, ok, status) ==
    LET cmd == IF opts.engine = "playwright"
               THEN runInstallPlaywrightChromium(pickPackageManager)
               ELSE runInstallPuppeteerChrome(pickPackageManager)
        d == [c EXCEPT !.browserInstall = @ + 1, !.ran = Append(@, cmd)]
    IN  IF ~ok
        THEN Retry(c)
        ELSE IF status # 0
        THEN /\ Throw(Err("recovery", {"installed, but failed to install"}))
             /\ calls' = [d EXCEPT !.failedInstall = @ + 1]
        ELSE Retry(d)

\* cli.js:201-226, 405: the answer to "Install ... browser binaries too?",
\* the install of the binaries when it is yes, and the second launch
PromptBrowsers ==
    /\ lpc = "promptBrowsers"
    /\ \E answer \in Answers, status \in ExitStatuses :
         LET ok == promptYesNo(answer, TRUE)
         IN  /\ consents' = Append(consents, ok)
             /\ ensureBrowsers(calls, ok, status)
    /\ UNCHANGED <<Sched, opts, firstErr>>

\* the consent is asked for but the install command is not run
ensureBinary_noInstall(c, ok, status) ==
    IF ~ok
    THEN /\ Throw(Err("recovery", {"browser binaries missing",
                                    "Run the browser install and retry"}))
         /\ calls' = c
    ELSE Retry(c)

\* cli.js:235-243, 252-260, then 410, 415: after the answer of
\* ensurePlaywrightBrowsersInstalled / ensurePuppeteerBrowsersInstalled
ensureBinary(c, ok, status) ==
    LET cmd == IF lpc = "promptPlaywrightBinary"
               THEN runInstallPlaywrightChromium(pickPackageManager)
               ELSE runInstallPuppeteerChrome(pickPackageManager)
        d == [c EXCEPT !.browserInstall = @ + 1, !.ran = Append(@, cmd)]
    IN  IF ~ok
        THEN /\ Throw(Err("recovery", {"browser binaries missing",
                                        "Run the browser install and retry"}))
             /\ calls' = c
        ELSE IF status # 0
        THEN /\ Throw(Err("recovery", {"Failed to install"}))
             /\ calls' = [d EXCEPT !.failedInstall = @ + 1]
        ELSE Retry(d)

\* cli.js:235-243, 252-260: the answer to "... binaries are missing.
\* Install ... now?", the install command and the second launch
PromptBinary ==
    /\ lpc \in {"promptPlaywrightBinary", "promptPuppeteerBinary"}
    /\ \E answer \in Answers, status \in ExitStatuses :
         LET ok == promptYesNo(answer, FALSE)
         IN  /\ consents' = Append(consents, ok)
             /\ ensureBinary(calls, ok, status)
    /\ UNCHANGED <<Sched, opts, firstErr>>

\* a failure of the second launch is handled like one of the first
RetryFailed_recovers(err) == LaunchCatch(err)

\* cli.js:405, 410, 415: the second launch is outside any try
RetryFailed(err) == Throw(err) /\ calls' = calls

\* cli.js:405, 410, 415: launchEngine resolved, or rejected with message m,
\* at its second call
Settled2(ok, m) ==
    /\ IF ok
       THEN Return /\ calls' = calls
       ELSE RetryFailed(Err("launch2", m))
    /\ firstErr' = firstErr

\* cli.js:405, 410, 415: the second launchEngine call settles
Launch2Settle ==
    /\ lpc = "launch2"
    /\ \E ok \in BOOLEAN, m \in LaunchMessages : Settled2(ok, m)
    /\ UNCHANGED <<Sched, opts, consents>>

\* launchEngine settles; the next call starts at the import again
EngineSettles(ok, m, e) ==
    /\ IF lpc = "launch1" THEN Settled1(ok, m) ELSE Settled2(ok, m)
    /\ eng' = [e EXCEPT !.step = "import", !.i = 1]

EngineGoesOn(e) ==
    /\ eng' = e
    /\ UNCHANGED <<lpc, firstErr, thrown, calls>>

\* what the steps of the engine leave alone
EngineFrame ==
    UNCHANGED <<cfg, firstUrl, pc, now, wakeAt, idle, StopState, lastActivityAt,
                curUrl, inFlight, proc, exitCode, cyc, lastCall, raw, arg,
                results, cdp, rec, opts, consents>>

\* engines.js:122-134, 200-213: the import of the engine package settles
EngineImportSettle ==
    /\ lpc \in {"launch1", "launch2"} /\ eng.step = "import"
    /\ \E ok \in BOOLEAN, m \in ImportFailures(opts.engine) :
         IF ok
         THEN EngineGoesOn([eng EXCEPT !.step = "launch", !.tried = <<>>,
                                       !.imports = @ + 1])
         ELSE EngineSettles(FALSE, m,
                            [eng EXCEPT !.tried = <<>>, !.imports = @ + 1])
    /\ EngineFrame

\* the session is made of the browser, before there is a page
EngineLaunchSettle_sessionFirst ==
    /\ lpc \in {"launch1", "launch2"} /\ eng.step = "launch"
    /\ \E ok \in BOOLEAN, m \in EngineMessages :
         LET channel == Channels(opts.engine)[eng.i]
             e == [eng EXCEPT !.tried = Append(@, channel),
                              !.err = IF ok THEN {} ELSE m]
             missing == IF opts.engine = "playwright"
                        THEN isPlaywrightMissingSystemChannelError(Err("launch", m), channel)
                        ELSE channel # "managed"
                             /\ isPuppeteerCouldNotFindChromeError(Err("launch", m))
         IN  IF ok
             THEN EngineGoesOn([e EXCEPT !.step = "page", !.browsers = @ + 1,
                                         !.sessions = @ + 1])
             ELSE IF missing
             THEN EngineGoesOn([e EXCEPT !.i = @ + 1])
             ELSE EngineSettles(FALSE, m, e)
    /\ EngineFrame

\* engines.js:164-179, 234-245: chromium.launch / puppeteer.launch settles
\* for the channel tried
EngineLaunchSettle ==
    /\ lpc \in {"launch1", "launch2"} /\ eng.step = "launch"
    /\ \E ok \in BOOLEAN, m \in EngineMessages :
         LET channel == Channels(opts.engine)[eng.i]
             e == [eng EXCEPT !.tried = Append(@, channel),
                              !.err = IF ok THEN {} ELSE m]
             missing == IF opts.engine = "playwright"
                        THEN isPlaywrightMissingSystemChannelError(Err("launch", m), channel)
                        ELSE channel # "managed"
                             /\ isPuppeteerCouldNotFindChromeError(Err("launch", m))
         IN  IF ok
             THEN EngineGoesOn([e EXCEPT !.step = "page", !.browsers = @ + 1])
             ELSE IF missing
             THEN EngineGoesOn([e EXCEPT !.i = @ + 1])
             ELSE EngineSettles(FALSE, m, e)
    /\ EngineFrame

\* engines.js:181-191, 247-249: newContext / newPage settle; createSession
\* and the return follow at once
EnginePageSettle ==
    /\ lpc \in {"launch1", "launch2"} /\ eng.step = "page"
    /\ \E ok \in BOOLEAN, m \in EngineMessages :
         IF ok
         THEN EngineSettles(TRUE, m, [eng EXCEPT !.sessions = @ + 1])
         ELSE EngineSettles(FALSE, m, eng)
    /\ EngineFrame

\* cli.js:83-107, 495-500: the options are validated; the process exits
\* with 1 when one of them is rejected, and main() runs up to its call of
\* launchEngine otherwise
Validate ==
    /\ proc = "running" /\ pc = "parse"
    /\ LET interval == parseInterval(raw.interval)
           engine == validateEngine(raw.engine)
           port == normalizePort(raw.cdpPort)
           bytes == parsePositiveInt(raw.recordMaxBytes)
           c == [url |-> validateUrlString(raw.url),
                 intervalSeconds |-> interval.value,
                 cacheBust |-> FALSE, alwaysReset |-> FALSE, onlyIfIdle |-> FALSE]
       IN  IF \/ urlRejected(raw.url) \/ interval.thrown \/ engine.thrown
              \/ port.thrown \/ bytes.thrown
           THEN /\ pc' = "rejected"
                /\ proc' = "exited" /\ exitCode' = 1
                /\ UNCHANGED <<cfg, firstUrl, opts, lpc, calls>>
           ELSE \E dirOk \in BOOLEAN :
                  /\ cfg' = c
                  /\ firstUrl' = c.url
                  /\ opts' = [opts EXCEPT !.engine = engine.value,
                                          !.cdpPort = port.value]
                  /\ IF dirOk
                     THEN /\ pc' = "launch" /\ lpc' = "launch1"
                          /\ calls' = FirstCall
                          /\ UNCHANGED <<proc, exitCode>>
                     ELSE /\ pc' = "failed"
                          /\ proc' = "exited" /\ exitCode' = 1
                          /\ UNCHANGED <<lpc, calls>>
    /\ UNCHANGED <<now, wakeAt, idle, StopState, lastActivityAt, curUrl,
                   inFlight, cyc, lastCall, firstErr, thrown, consents, Aux>>

\* cli.js:512-550: the handlers are registered and the first navigation is
\* issued
FirstGoto ==
    /\ curUrl' = AboutBlank
    /\ lastActivityAt' = now
    /\ pc' = "firstGoto"
    /\ inFlight' = inFlight + 1
    /\ lastCall' = [kind |-> "goto", target |-> firstUrl, page |-> AboutBlank,
                    read |-> FALSE, at |-> now, cycle |-> 0]

\* the polling is followed for MaxTicks poll intervals past its time limit
CdpHorizon == CdpTimeoutMs + MaxTicks * CdpPollMs

\* cli.js:500-550: the session is acquired; without a CDP port the handlers
\* are registered and the first navigation is issued, with one the
\* endpoint is polled first (cli.js:508-510, 481-486, 458-467)
LaunchOk ==
    /\ proc = "running" /\ pc = "launch" /\ lpc = "returned"
    /\ session' = "open"
    /\ IF opts.cdpPort = Null
       THEN FirstGoto /\ cdp' = cdp
       ELSE /\ pc' = "cdpFetch"
            /\ cdp' = [startedAt |-> now, attempts |-> 1, got |-> "none",
                       endedAt |-> 0]
            /\ UNCHANGED <<curUrl, lastActivityAt, inFlight, lastCall>>
    /\ UNCHANGED <<cfg, firstUrl, Acq, raw, arg, results, rec, eng, now, wakeAt, idle,
                   stopped, closeCalls, stopRuns, signals, proc, exitCode, cyc>>

\* printCdpEndpoints returns (cli.js:486-492), whatever waitForJson did
CdpDone(how) ==
    /\ cdp' = [cdp EXCEPT !.got = how, !.endedAt = now]
    /\ FirstGoto
    /\ wakeAt' = wakeAt

\* cli.js:467-475: fetch() or res.json() settles
CdpFetchSettle ==
    /\ proc = "running" /\ pc = "cdpFetch"
    /\ \E outcome \in {"failed", "noWebSocketUrl", "webSocketUrl"} :
         IF outcome = "failed"
         THEN /\ pc' = "cdpSleep"
              /\ wakeAt' = now + CdpPollMs
              /\ UNCHANGED <<cdp, curUrl, lastActivityAt, inFlight, lastCall>>
         ELSE CdpDone(outcome)
    /\ UNCHANGED <<cfg, firstUrl, Acq, raw, arg, results, rec, eng, now, idle, StopState,
                   proc, exitCode, cyc>>

\* cli.js:462, 474-478: the sleep after a failed attempt is over
CdpSleepWake ==
    /\ proc = "running" /\ pc = "cdpSleep" /\ now >= wakeAt
    /\ IF now - cdp.startedAt < CdpTimeoutMs
       THEN /\ pc' = "cdpFetch"
            /\ cdp' = [cdp EXCEPT !.attempts = @ + 1]
            /\ UNCHANGED <<wakeAt, curUrl, lastActivityAt, inFlight, lastCall>>
       ELSE CdpDone("timedOut")
    /\ UNCHANGED <<cfg, firstUrl, Acq, raw, arg, results, rec, eng, now, idle, StopState,
                   proc, exitCode, cyc>>

\* time passes during the polling; the timer of the sleep fires on time
CdpTick ==
    /\ proc = "running" /\ pc \in {"cdpFetch", "cdpSleep"}
    /\ pc = "cdpSleep" => now < wakeAt
    /\ now + CdpPollMs <= cdp.startedAt + CdpHorizon
    /\ now' = now + CdpPollMs
    /\ UNCHANGED <<Env, pc, wakeAt, idle, StopState, lastActivityAt, curUrl,
                   inFlight, proc, exitCode, cyc, lastCall>>

\* the rejection is swallowed and main() goes on without a session
LaunchFail_goesOn ==
    /\ proc = "running" /\ pc = "launch" /\ lpc = "threw"
    /\ pc' = "firstGoto"
    /\ inFlight' = inFlight + 1
    /\ lastCall' = [kind |-> "goto", target |-> firstUrl, page |-> AboutBlank,
                    read |-> FALSE, at |-> now, cycle |-> 0]
    /\ UNCHANGED <<Env, now, wakeAt, idle, StopState, lastActivityAt, curUrl,
                   proc, exitCode, cyc>>

\* cli.js:500, 593: launchWithOptionalInstall rejects
LaunchFail ==
    /\ proc = "running" /\ pc = "launch" /\ lpc = "threw"
    /\ MainThrows
    /\ UNCHANGED <<Env, now, StopState, lastActivityAt, curUrl, inFlight,
                   cyc, lastCall>>

\* markActivity("initial-load") is left out
FirstGotoSettle_noMark ==
    /\ proc = "running" /\ pc = "firstGoto"
    /\ \E ok \in BOOLEAN :
         IF ok
         THEN /\ curUrl' = lastCall.target
              /\ lastActivityAt' = lastActivityAt
              /\ Completed(inFlight - 1, cyc)
         ELSE /\ MainThrows
              /\ inFlight' = inFlight - 1
              /\ UNCHANGED <<curUrl, lastActivityAt, cyc, lastCall>>
    /\ UNCHANGED <<Env, now, StopState>>

\* the first goto is inside a try like the refreshes of the loop
FirstGotoSettle_isolated ==
    /\ proc = "running" /\ pc = "firstGoto"
    /\ \E ok \in BOOLEAN :
         /\ curUrl' = IF ok THEN lastCall.target ELSE curUrl
         /\ lastActivityAt' = IF ok THEN now ELSE lastActivityAt
         /\ Completed(inFlight - 1, cyc)
    /\ UNCHANGED <<Env, now, StopState>>

\* cli.js:550-556: the first goto settles
FirstGotoSettle ==
    /\ proc = "running" /\ pc = "firstGoto"
    /\ \E ok \in BOOLEAN :
         IF ok
         THEN /\ curUrl' = lastCall.target
              /\ lastActivityAt' = now
              /\ Completed(inFlight - 1, cyc)
         ELSE /\ MainThrows
              /\ inFlight' = inFlight - 1
              /\ UNCHANGED <<curUrl, lastActivityAt, cyc, lastCall>>
    /\ UNCHANGED <<Env, now, StopState>>

\* the `if (stopped) break` after the sleep is missing
SleepWake_noStopCheck ==
    /\ proc = "running" /\ pc = "sleep" /\ now >= wakeAt
    /\ cyc.n < MaxCycles
    /\ IF cfg.onlyIfIdle
       THEN waitForIdle
       ELSE TryRefresh("top", inFlight, NewCycle)
    /\ UNCHANGED <<Env, now, StopState, lastActivityAt, curUrl>>

\* cli.js:556-566: the interval timer fires
SleepWake ==
    /\ proc = "running" /\ pc = "sleep" /\ now >= wakeAt
    /\ stopped \/ cyc.n < MaxCycles
    /\ IF stopped
       THEN Completed(inFlight, cyc)
       ELSE IF cfg.onlyIfIdle
       THEN waitForIdle
       ELSE TryRefresh("top", inFlight, NewCycle)
    /\ UNCHANGED <<Env, now, StopState, lastActivityAt, curUrl>>

\* cli.js:454: the poll timer of waitForIdle fires
IdleWake ==
    /\ proc = "running" /\ pc = "idleSleep" /\ now >= wakeAt
    /\ waitForIdle
    /\ UNCHANGED <<Env, now, StopState, lastActivityAt, curUrl>>

\* cli.js:572, 581, 586: the awaited goto/reload settles
NavSettle ==
    /\ proc = "running" /\ pc \in LoopNavPcs
    /\ \E ok \in BOOLEAN :
         /\ curUrl' = IF ok /\ lastCall.kind = "goto" THEN lastCall.target ELSE curUrl
         /\ IF ~ok
            THEN Catch(inFlight - 1, cyc)
            ELSE IF AfterSettle(pc) = "loop"
            THEN Completed(inFlight - 1, cyc)
            ELSE TryRefresh(AfterSettle(pc), inFlight - 1, cyc)
    /\ UNCHANGED <<Env, now, StopState, lastActivityAt>>

\* the `if (stopped) return` guard is missing
stop_noGuard ==
    /\ stopped' = TRUE
    /\ stopRuns' = stopRuns + 1
    /\ closeCalls' = closeCalls + 1
    /\ session' = "closing"

\* the handler only raises the flag and leaves the close to the loop
stop_flagOnly ==
    IF stopped
    THEN UNCHANGED <<stopped, session, closeCalls, stopRuns>>
    ELSE /\ stopped' = TRUE
         /\ stopRuns' = stopRuns + 1
         /\ UNCHANGED <<session, closeCalls>>

\* cli.js:533-540: stop(reason) up to its await
stop ==
    IF stopped
    THEN UNCHANGED <<stopped, session, closeCalls, stopRuns>>
    ELSE /\ stopped' = TRUE
         /\ stopRuns' = stopRuns + 1
         /\ closeCalls' = closeCalls + 1
         /\ session' = "closing"

\* cli.js:542-543: SIGINT or SIGTERM reaches its handler
Signal ==
    /\ proc = "running" /\ session # "none"
    /\ signals < MaxSignals
    /\ signals' = signals + 1
    /\ stop
    /\ UNCHANGED <<Env, pc, now, wakeAt, idle, lastActivityAt, curUrl, inFlight,
                   proc, exitCode, cyc, lastCall>>

\* a rejection of close() is only reported, and the process lives on
CloseSettle_failureIgnored ==
    /\ proc = "running" /\ session = "closing"
    /\ \E ok \in BOOLEAN :
         /\ session' = IF ok THEN "closed" ELSE "closeFailed"
         /\ exitCode' = IF ok THEN 0 ELSE exitCode
         /\ proc' = IF ok THEN "exited" ELSE proc
    /\ UNCHANGED <<Env, pc, now, wakeAt, idle, stopped, lastActivityAt, curUrl,
                   inFlight, closeCalls, stopRuns, signals, cyc, lastCall>>

\* cli.js:538-539: session.close() settles; process.exit(0) follows when it
\* resolved, and a rejection of the `void stop()` promise is an unhandled
\* rejection, which ends node with status 1
CloseSettle ==
    /\ proc = "running" /\ session = "closing"
    /\ \E ok \in BOOLEAN :
         /\ session' = IF ok THEN "closed" ELSE "closeFailed"
         /\ exitCode' = IF ok THEN 0 ELSE 1
    /\ proc' = "exited"
    /\ UNCHANGED <<Env, pc, now, wakeAt, idle, stopped, lastActivityAt, curUrl,
                   inFlight, closeCalls, stopRuns, signals, cyc, lastCall>>

\* cli.js:424-432: the events registerActivityTracking subscribes to
Subscribed ==
    {"domcontentloaded", "load", "framenavigated", "request", "requestfinished",
     "requestfailed", "response"}

\* the handler records the time of the last navigation call
Activity_timeOfCall ==
    /\ proc = "running" /\ session \in {"open", "closing"}
    /\ \E evt \in Subscribed : lastActivityAt' = lastCall.at
    /\ UNCHANGED <<Env, pc, now, wakeAt, idle, StopState, curUrl, inFlight, proc,
                   exitCode, cyc, lastCall>>

\* cli.js:520-523, 423-441: a subscribed page event
Activity ==
    /\ proc = "running" /\ session \in {"open", "closing"}
    /\ \E evt \in Subscribed : lastActivityAt' = now
    /\ UNCHANGED <<Env, pc, now, wakeAt, idle, StopState, curUrl, inFlight, proc,
                   exitCode, cyc, lastCall>>

\* the user navigates the page by hand (framenavigated is a subscribed event)
UserNavigate ==
    /\ proc = "running" /\ session = "open"
    /\ \E u \in PageUrls : u # curUrl /\ curUrl' = u
    /\ lastActivityAt' = now
    /\ UNCHANGED <<Env, pc, now, wakeAt, idle, StopState, inFlight, proc, exitCode,
                   cyc, lastCall>>

\* time passes; a pending timer fires before time moves past its expiry
\* (the time session acquisition takes is not part of this model)
Tick ==
    /\ proc = "running" /\ pc # "launch"
    /\ now + TickMs <= MaxTime
    /\ pc \in TimerPcs => now < wakeAt
    /\ now' = now + TickMs
    /\ UNCHANGED <<Env, pc, wakeAt, idle, StopState, lastActivityAt, curUrl,
                   inFlight, proc, exitCode, cyc, lastCall>>

Next ==
    \/ LaunchOk
    \/ LaunchFail
    \/ FirstGotoSettle
    \/ SleepWake
    \/ IdleWake
    \/ NavSettle
    \/ Signal
    \/ CloseSettle
    \/ Activity
    \/ UserNavigate
    \/ Tick

Spec == Init /\ [][Next]_vars

SpecIdle == InitIdle /\ [][Next]_vars

\* main() from its call of launchWithOptionalInstall to the first goto
NextLaunch ==
    \/ Launch1Settle
    \/ PromptEngine
    \/ PromptBrowsers
    \/ PromptBinary
    \/ Launch2Settle
    \/ LaunchOk
    \/ LaunchFail

SpecLaunch == InitLaunch /\ [][NextLaunch]_vars

\* the module from program.parse() to the first launchEngine call and its
\* outcome
NextConfig ==
    \/ Validate
    \/ Launch1Settle

SpecConfig == InitConfig /\ [][NextConfig]_vars

-----------------------------------------------------------------------------
(* Session acquisition with the steps of launchPlaywright and               *)
(* launchPuppeteer in place of the two settle steps.                        *)

NextEngine ==
    \/ EngineImportSettle
    \/ EngineLaunchSettle
    \/ EnginePageSettle
    \/ PromptEngine
    \/ PromptBrowsers
    \/ PromptBinary
    \/ LaunchOk
    \/ LaunchFail

SpecEngine == InitLaunch /\ [][NextEngine]_vars

-----------------------------------------------------------------------------
(* main() without an end: no termination signal arrives, every call         *)
(* settles, and time passes.  The loop reads times only as differences      *)
(* (cli.js:446-452, 556) and never reads the counters kept as history, so   *)
(* the origin of time and the counters are moved back while a timer of the  *)
(* loop is pending, which keeps the states finite.                          *)

\* reload and cache-busting goto on a timer, and reload when idle
LiveConfigs == {c \in Configs : ~c.alwaysReset /\ ~c.onlyIfIdle} \cup IdleConfigs

InitLive == \E c \in LiveConfigs : Start(c) /\ Acquired(TRUE)

\* the same state seen from the current time: what lies a whole interval or
\* more in the past is all the same to waitForIdle
Rebase ==
    /\ proc = "running" /\ pc \in TimerPcs
    /\ now > 0 \/ cyc.n > 0
    /\ now' = 0
    /\ wakeAt' = wakeAt - now
    /\ lastActivityAt' = IF now - lastActivityAt >= intervalMs
                         THEN 0 - intervalMs
                         ELSE lastActivityAt - now
    /\ cyc' = [cyc EXCEPT !.n = 0]
    /\ lastCall' = [lastCall EXCEPT !.at = 0, !.cycle = 0]
    /\ idle' = [polls |-> IF idle.polls > 0 THEN 1 ELSE 0, enteredAt |-> 0,
                sleptFrom |-> 0]
    /\ UNCHANGED <<Env, pc, StopState, curUrl, inFlight, proc, exitCode>>

NextLive ==
    \/ LaunchOk
    \/ FirstGotoSettle
    \/ SleepWake
    \/ IdleWake
    \/ NavSettle
    \/ Activity
    \/ Tick
    \/ Rebase

\* node runs a timer that is due and the continuation of a call that has
\* settled (cli.js:83-85, 454, 556); the calls settle and time passes
Fairness ==
    /\ WF_vars(LaunchOk)
    /\ WF_vars(FirstGotoSettle)
    /\ WF_vars(SleepWake)
    /\ WF_vars(IdleWake)
    /\ WF_vars(NavSettle)
    /\ WF_vars(Tick)
    /\ WF_vars(Rebase)

SpecLive == InitLive /\ [][NextLive]_vars /\ Fairness

-----------------------------------------------------------------------------
(* launchEngine called with any engine name and any port.                   *)

\* the arguments of the call: raw.engine and raw.cdpPort
ApiArgs ==
    {[NoRaw EXCEPT !.engine = r.engine, !.cdpPort = r.cdpPort] : r \in RawOptions}

InitApi ==
    /\ raw \in ApiArgs
    /\ arg = EmptyStr /\ results = <<>>
    /\ cfg = Unparsed
    /\ firstUrl = EmptyStr
    /\ now = 0
    /\ pc = "parse"
    /\ Fresh
    /\ rec = NoRecorder
    /\ opts = PlainOpts
    /\ lpc = "notCalled"
    /\ firstErr = NoErr
    /\ thrown = NoErr
    /\ calls = NotCalled
    /\ consents = <<>>

\* the engine name is looked at before the port
launchEngine_engineFirst(engine, port) ==
    IF engine \notin Engines
    THEN [thrown |-> TRUE, msg |-> {"Unknown engine:"}]
    ELSE IF normalizePort(port).thrown
    THEN [thrown |-> TRUE, msg |-> {"CDP port must be an integer between 1 and 65535"}]
    ELSE [thrown |-> FALSE, msg |-> {}]

\* engines.js:258-272: what launchEngine does before it awaits anything
launchEngine(engine, port) ==
    IF normalizePort(port).thrown
    THEN [thrown |-> TRUE, msg |-> {"CDP port must be an integer between 1 and 65535"}]
    ELSE IF engine \notin Engines
    THEN [thrown |-> TRUE, msg |-> {"Unknown engine:"}]
    ELSE [thrown |-> FALSE, msg |-> {}]

\* engines.js:258-272: launchEngine is called; it rejects at once, or goes
\* on to the import of launchPlaywright / launchPuppeteer
LaunchEngineCall ==
    /\ lpc = "notCalled"
    /\ LET r == launchEngine(raw.engine, raw.cdpPort)
       IN  IF r.thrown
           THEN /\ lpc' = "threw"
                /\ thrown' = Err("launchEngine", r.msg)
                /\ UNCHANGED <<opts, calls>>
           ELSE /\ lpc' = "launch1"
                /\ thrown' = thrown
                /\ opts' = [opts EXCEPT !.engine = raw.engine,
                                        !.cdpPort = normalizePort(raw.cdpPort).value]
                /\ calls' = FirstCall
    /\ UNCHANGED <<Sched, firstErr, consents>>

NextApi ==
    \/ LaunchEngineCall
    \/ EngineImportSettle
    \/ EngineLaunchSettle
    \/ EnginePageSettle

SpecApi == InitApi /\ [][NextApi]_vars

-----------------------------------------------------------------------------
(* main() under --only-if-idle with and without --record-network.           *)

InitRecord ==
    /\ \E c \in IdleConfigs : StartWith(c)
    /\ \E ok \in BOOLEAN : Acquired(ok)
    /\ rec \in {NoRecorder, Recording}

\* cli.js:315-373, 376: a response the recorder keeps arrives; markActivity
\* runs first (cli.js:523 precedes cli.js:525), then onResponse writes its
\* entry
RecordResponse ==
    /\ proc = "running" /\ session = "open" /\ ~stopped
    /\ rec.stream = "open" /\ rec.entries < MaxEntries
    /\ lastActivityAt' = now
    /\ rec' = [rec EXCEPT !.entries = @ + 1]
    /\ UNCHANGED <<cfg, firstUrl, Acq, raw, arg, results, cdp, eng, pc, now,
                   wakeAt, idle, StopState, curUrl, inFlight, proc, exitCode,
                   cyc, lastCall>>

\* cli.js:300, 307: the stream fails to open or to write (no permission, no
\* space): it emits 'error', nothing listens, and node ends the process
\* with status 1
RecorderError ==
    /\ proc = "running" /\ session # "none"
    /\ rec.stream = "open"
    /\ rec' = [rec EXCEPT !.stream = "failed"]
    /\ proc' = "exited" /\ exitCode' = 1
    /\ UNCHANGED <<cfg, firstUrl, Acq, raw, arg, results, cdp, eng, pc, now,
                   wakeAt, idle, StopState, lastActivityAt, curUrl, inFlight,
                   cyc, lastCall>>

NextRecord ==
    \/ Next
    \/ RecordResponse
    \/ RecorderError

SpecRecord == InitRecord /\ [][NextRecord]_vars

-----------------------------------------------------------------------------
(* main() with --cdp-port, from the return of the launch to the first       *)
(* sleep of the loop.                                                       *)

CdpPorts == {Num("finite", 9222 * 1000)}

InitCdp ==
    /\ \E c \in Configs : Start(c)
    /\ opts \in {[PlainOpts EXCEPT !.cdpPort = port] : port \in CdpPorts}
    /\ lpc = "returned"
    /\ firstErr = NoErr
    /\ thrown = NoErr
    /\ calls = FirstCall
    /\ consents = <<>>

NextCdp ==
    \/ LaunchOk
    \/ CdpFetchSettle
    \/ CdpSleepWake
    \/ CdpTick
    \/ FirstGotoSettle

SpecCdp == InitCdp /\ [][NextCdp]_vars

-----------------------------------------------------------------------------
(* The URL functions of utils.js on their own: they are applied, in any     *)
(* order, to a string and to what the previous call returned.              *)

InitUrl ==
    /\ arg \in UrlStrings
    /\ results = <<>>
    /\ raw = NoRaw
    /\ cfg = Unparsed
    /\ firstUrl = EmptyStr
    /\ now = 0
    /\ pc = "parse"
    /\ Fresh
    /\ rec = NoRecorder
    /\ Acquired(TRUE)

\* what a call may be given
Args == {arg} \cup {results[i].out : i \in {Len(results)} \ {0}}

Called(fn, in, param, t, r, out) ==
    /\ Len(results) < MaxCalls
    /\ results' = Append(results, [fn |-> fn, in |-> in, param |-> param,
                                   t |-> t, r |-> r, out |-> out])
    /\ UNCHANGED <<cfg, firstUrl, pc, now, wakeAt, idle, StopState, lastActivityAt,
                   curUrl, inFlight, proc, exitCode, cyc, lastCall, Acq, raw, arg, cdp, rec, eng>>

CallStripQueryParam ==
    \E x \in Args, param \in {"_cb", "other"} :
      Called("stripQueryParam", x, param, 0, 0, stripQueryParam(x, param))

CallWithCacheBuster ==
    \E x \in Args, t \in Stamps, r \in Rnds :
      Called("withCacheBuster", x, "_cb", t, r, withCacheBuster(x, t, r))

NextUrl ==
    \/ CallStripQueryParam
    \/ CallWithCacheBuster

SpecUrl == InitUrl /\ [][NextUrl]_vars

\* Date.now() at calls far apart: the numbers up to MaxStamp and their
\* multiples by the base, which have one character more
MarkerStamps == Stamps \cup {Base * t : t \in Stamps}

\* withCacheBuster is called again and again for the same string
CallWithCacheBusterAgain ==
    \E t \in MarkerStamps, r \in 0..MaxSuffix :
      Called("withCacheBuster", arg, "_cb", t, r, withCacheBuster(arg, t, r))

SpecMarker == InitUrl /\ [][CallWithCacheBusterAgain]_vars

-----------------------------------------------------------------------------
(* Properties *)

NavPcs == LoopNavPcs \cup {"firstGoto"}

Markers(q) == SelectSeq(q, LAMBDA e : e.name = "_cb")

\* q carries exactly one marker, generated at time t
OneFreshMarker(q, t) ==
    /\ Len(Markers(q)) = 1
    /\ \E r \in Rnds : Markers(q)[1].value = MarkerValue(t, r)

\* a and b are the same URL apart from their markers
SameButMarker(a, b) ==
    a.kind = b.kind /\ a.p = b.p /\ DeleteAll(a.q, "_cb") = DeleteAll(b.q, "_cb")

\* a session call of the current cycle was rejected in this step
RejectedStep == cyc'.failed /\ (cyc'.n # cyc.n \/ ~cyc.failed)

\* C1: at most one goto/reload is in flight, and one is in flight only while
\* main() is suspended on it: never during the interval sleep or the idle wait
C1_OneCallInFlight ==
    /\ inFlight \in {0, 1}
    /\ inFlight = 1 => pc \in NavPcs
    /\ pc \in TimerPcs => inFlight = 0

C1_Witness == pc \in LoopNavPcs /\ cyc.n = 2 /\ inFlight = 1 /\ proc = "running"

\* C2: a rejected session call of a refresh cycle neither ends the process nor
\* changes stopped, and with stopped false the loop goes on to the next sleep
C2_FailureIsCaught ==
    [][RejectedStep =>
         /\ proc' = "running" /\ exitCode' = NoCode
         /\ stopped' = stopped
         /\ ~stopped => (pc' = "sleep" /\ wakeAt' = now + intervalMs)]_vars

C2_Witness ==
    /\ cyc.failed /\ ~cyc.urlFail /\ cyc.issued = 1
    /\ pc = "sleep" /\ ~stopped /\ proc = "running"

C4_ExitZeroAfterSignal == (proc = "exited" /\ signals > 0) => exitCode = 0

\* C5: once stopped is set no goto/reload is issued and no cycle is started,
\* and the loop leaves when it wakes or when its call settles
C5_NoCallOnceStopped ==
    [][stopped =>
         /\ cyc'.n = cyc.n /\ cyc'.issued = cyc.issued
         /\ lastCall' = lastCall
         /\ inFlight' <= inFlight
         /\ (pc \in TimerPcs \cup NavPcs /\ pc' # pc) => pc' \in {"done", "failed"}]_vars

C5_Witness == stopped /\ pc = "done" /\ proc = "running" /\ inFlight = 0

\* C6: stopped never returns to false, and the body of stop() runs at most
\* once, in the step that takes stopped from false to true
C6_StopOnce ==
    [][/\ stopped => stopped'
       /\ stopRuns' # stopRuns => (~stopped /\ stopped' /\ stopRuns' = 1)
       /\ stopped' # stopped => stopRuns' = stopRuns + 1]_vars

C6_Witness == signals = 2 /\ stopRuns = 1 /\ stopped /\ proc = "running"

\* C7: a process that ended after its session was created called
\* session.close() exactly once
C7_ClosedOnceOnExit == (proc = "exited" /\ session # "none") => closeCalls = 1

\* C8 as stated: a cycle that reached the refresh step issued exactly one call
C8_ExactlyOneCall == cyc.n > 0 => cyc.issued = 1

\* C8 amended: a cycle that reached the refresh step issued one call of the
\* kind its configuration selects, or none when currentUrl() was rejected
C8_OneCallUnlessUrlReadFails ==
    cyc.n > 0 =>
      /\ cyc.issued = IF cyc.urlFail THEN 0 ELSE 1
      /\ cyc.urlFail => (cfg.cacheBust /\ ~cfg.alwaysReset)
      /\ cyc.issued = 1 =>
           /\ lastCall.cycle = cyc.n
           /\ lastCall.kind = IF cfg.alwaysReset \/ cfg.cacheBust THEN "goto" ELSE "reload"
           /\ lastCall.read = (cfg.cacheBust /\ ~cfg.alwaysReset)

C8_Witness == cyc.n = 2 /\ cyc.issued = 1 /\ ~cyc.failed /\ pc = "sleep"

\* C9: with alwaysReset every refresh is a goto to the configured URL: as it
\* is without cacheBust, with its marker replaced by a fresh one with it
C9_AlwaysResetTarget ==
    (cfg.alwaysReset /\ lastCall.cycle > 0) =>
      /\ lastCall.kind = "goto"
      /\ IF cfg.cacheBust
         THEN /\ SameButMarker(lastCall.target, cfg.url)
              /\ OneFreshMarker(lastCall.target.q, lastCall.at)
         ELSE lastCall.target = cfg.url

C9_Witness ==
    /\ cfg.alwaysReset /\ cfg.cacheBust /\ lastCall.cycle = 2
    /\ lastCall.page.p # cfg.url.p /\ lastCall.page.kind = "url"

\* C10: with cacheBust and without alwaysReset every refresh is a goto to the
\* page's URL with its markers replaced by one fresh marker at the end, and
\* to the configured URL treated the same way when the page is blank
C10_CacheBustTarget ==
    (cfg.cacheBust /\ ~cfg.alwaysReset /\ lastCall.cycle > 0) =>
      LET from == IF lastCall.page \in {AboutBlank, EmptyStr} THEN cfg.url ELSE lastCall.page
          t == lastCall.target
      IN  /\ lastCall.kind = "goto"
          /\ SameButMarker(t, from)
          /\ OneFreshMarker(t.q, lastCall.at)
          /\ t.q[Len(t.q)].name = "_cb"

C10_Witness ==
    /\ cfg.cacheBust /\ ~cfg.alwaysReset /\ lastCall.cycle > 0
    /\ lastCall.page.kind = "url" /\ Len(Markers(lastCall.page.q)) = 2

\* C11: with cacheBust every goto, the first load included, goes to a URL
\* with exactly one marker and with every other parameter of the URL it was
\* built from (the configured URL, or the URL the page reported), in order
C11_OneMarkerPerTarget ==
    (cfg.cacheBust /\ lastCall.kind = "goto") =>
      LET from == IF \/ lastCall.cycle = 0
                     \/ cfg.alwaysReset
                     \/ lastCall.page \in {AboutBlank, EmptyStr}
                  THEN cfg.url
                  ELSE lastCall.page
          t == lastCall.target
      IN  /\ Len(Markers(t.q)) = 1
          /\ t.kind = from.kind /\ t.p = from.p
          /\ DeleteAll(t.q, "_cb") = DeleteAll(from.q, "_cb")

\* the second cycle starts from the URL the first cycle navigated to, and
\* that URL's marker is replaced
C11_Witness ==
    /\ cfg.cacheBust /\ ~cfg.alwaysReset /\ lastCall.cycle = 2
    /\ lastCall.page.kind = "url" /\ Len(Markers(lastCall.page.q)) = 1
    /\ Markers(lastCall.page.q)[1] \notin {Stale, Markers(lastCall.target.q)[1]}
    /\ HasParam(lastCall.target.q, "other")

\* C12: with neither alwaysReset nor cacheBust every refresh cycle issues one
\* reload: no goto is called in the loop and currentUrl() is not read
C12_PlainReload ==
    (~cfg.alwaysReset /\ ~cfg.cacheBust /\ cyc.n > 0) =>
      /\ cyc.issued = 1 /\ ~cyc.urlFail
      /\ lastCall.cycle = cyc.n
      /\ lastCall.kind = "reload" /\ ~lastCall.read
      /\ pc \notin {"gotoReset", "gotoCb"}

C12_Witness ==
    /\ ~cfg.alwaysReset /\ ~cfg.cacheBust /\ cyc.n = 2
    /\ pc = "reload" /\ inFlight = 1 /\ lastCall.kind = "reload"

\* the time since the latest activity event
IdleForMs == now - lastActivityAt

\* C13: with onlyIfIdle a refresh cycle starts only in a step in which stopped
\* is false and intervalMs have passed since the latest activity; the wait
\* never sleeps past that moment, and once it is reached no time passes
\* before the wait returns and the refresh is issued
C13_RefreshOnlyWhenIdle ==
    [][cfg.onlyIfIdle =>
         /\ cyc'.n # cyc.n => (~stopped /\ IdleForMs >= intervalMs)
         /\ pc' = "idleSleep" => wakeAt' <= lastActivityAt' + intervalMs
         /\ (pc = "idleSleep" /\ ~stopped /\ IdleForMs >= intervalMs) =>
               /\ now' = now
               /\ pc' # pc => (cyc'.n = cyc.n + 1 /\ lastCall'.at = now)
         /\ (pc = "sleep" /\ pc' # pc /\ ~stopped) =>
               IF IdleForMs >= intervalMs
               THEN cyc'.n = cyc.n + 1 /\ lastCall'.at = now
               ELSE pc' = "idleSleep" /\ cyc' = cyc]_vars

\* activity arrived during the wait, and the refresh was issued intervalMs
\* after it
C13_Witness ==
    /\ cfg.onlyIfIdle /\ pc = "reload" /\ cyc.n = 1 /\ lastCall.at = now
    /\ idle.polls >= 2 /\ lastActivityAt > idle.enteredAt
    /\ now = lastActivityAt + intervalMs

\* C14: every poll sleep of the idle wait lasts min(remaining idle time,
\* 5000 ms), which is positive and at most 5000 ms, and a wait that wakes
\* with stopped set returns without a refresh although the session is not
\* idle: a stop is seen at most one poll sleep after it was requested
C14_StopEndsIdleWait ==
    [][cfg.onlyIfIdle =>
         /\ (pc' = "idleSleep" /\ wakeAt' # wakeAt) =>
               LET remainingMs == intervalMs - IdleForMs
                   sleepMs == wakeAt' - now
               IN  /\ sleepMs = IF remainingMs < PollCapMs THEN remainingMs ELSE PollCapMs
                   /\ sleepMs > 0 /\ sleepMs <= PollCapMs
         /\ pc = "idleSleep" => (wakeAt - now <= PollCapMs /\ now <= wakeAt)
         /\ (pc = "idleSleep" /\ stopped /\ pc' # pc) =>
               (pc' = "done" /\ cyc' = cyc /\ lastCall' = lastCall /\ now' = now)]_vars

\* a capped poll sleep ended with stopped set and the wait returned at once,
\* the session not being idle
C14_Witness ==
    /\ cfg.onlyIfIdle /\ pc = "done" /\ stopped /\ proc = "running"
    /\ cyc.n = 0 /\ idle.polls = 1 /\ wakeAt - idle.enteredAt = PollCapMs
    /\ now = wakeAt /\ IdleForMs < intervalMs

\* C15: with onlyIfIdle no step that ends less than intervalMs after the
\* latest activity starts a refresh cycle, and the idle wait is left in such
\* a step only when stopped is set: as long as activity keeps arriving in
\* time the wait goes on, however long it has lasted
C15_NoRefreshWhileActive ==
    [][(cfg.onlyIfIdle /\ now' - lastActivityAt' < intervalMs) =>
         /\ cyc'.n = cyc.n /\ cyc'.issued = cyc.issued
         /\ inFlight' <= inFlight \/ pc = "launch"
         /\ (pc = "idleSleep" /\ pc' # pc) => stopped]_vars

\* the wait has lasted a whole interval and is sleeping again
C15_Witness ==
    /\ cfg.onlyIfIdle /\ pc = "idleSleep" /\ ~stopped /\ cyc.n = 0
    /\ idle.polls >= 3 /\ now - idle.enteredAt >= intervalMs
    /\ now < wakeAt

\* launchWithOptionalInstall has settled
Settled == lpc \in {"returned", "threw"}

\* the class of the failure of the first launch
Class == FailureClass(firstErr, opts.engine)

\* the first launch failed, auto-install is on and the first prompt was
\* answered yes
Consented == firstErr # NoErr /\ opts.autoInstall /\ consents # <<>> /\ consents[1]

\* C16 as stated: after a missing-engine failure with consent there were one
\* install of the engine package and one retry launch
C16_OneInstallOneRetry ==
    (Settled /\ Consented /\ Class = "missingEngine") =>
      (calls.engineInstall = 1 /\ calls.launch = 2)

\* C16 amended: after a missing-engine failure with consent the engine
\* package was installed once, the browser binaries at most once (when the
\* second prompt was answered yes), and the launch was retried once if every
\* install command exited with 0 and not at all otherwise; the error of a
\* failed retry is the one that is thrown, with no second recovery
C16_OneInstallRetryIfInstalled ==
    (Settled /\ Consented /\ Class = "missingEngine") =>
      /\ calls.ensure = 1 /\ calls.engineInstall = 1
      /\ calls.ran[1] = runInstallEngine(pickPackageManager, opts.engine)
      /\ calls.browserInstall = IF Len(consents) = 2 /\ consents[2] THEN 1 ELSE 0
      /\ Len(calls.ran) = calls.engineInstall + calls.browserInstall
      /\ calls.launch = IF calls.failedInstall = 0 THEN 2 ELSE 1
      /\ (calls.launch = 2 /\ lpc = "threw") => thrown.from = "launch2"
      /\ calls.launch = 1 => (lpc = "threw" /\ thrown.from = "recovery")

\* the retry failed for want of the engine again, and that error ended main()
C16_Witness ==
    /\ Consented /\ Class = "missingEngine"
    /\ lpc = "threw" /\ thrown.from = "launch2"
    /\ isMissingEngineError(thrown, opts.engine)
    /\ calls.launch = 2 /\ calls.ensure = 1 /\ calls.engineInstall = 1
    /\ proc = "exited"

\* C17 as stated: after a missing-browser failure with consent the browser
\* install command ran once and the launch was retried once
C17_BinaryInstallAndRetry ==
    (Settled /\ Consented /\ Class = "missingBrowser") =>
      (calls.browserInstall = 1 /\ calls.launch = 2)

\* C17 amended: after a missing-browser failure with consent, for either
\* engine, the browser install command of that engine ran once and nothing
\* else was installed, and the launch was retried once if the command exited
\* with 0 and not at all otherwise
C17_BinaryInstallRetryIfInstalled ==
    (Settled /\ Consented /\ Class = "missingBrowser") =>
      /\ calls.ensure = 1 /\ calls.prompt = 1
      /\ calls.ran = << IF opts.engine = "playwright"
                        THEN runInstallPlaywrightChromium(pickPackageManager)
                        ELSE runInstallPuppeteerChrome(pickPackageManager) >>
      /\ calls.browserInstall = 1 /\ calls.engineInstall = 0
      /\ calls.launch = IF calls.failedInstall = 0 THEN 2 ELSE 1
      /\ calls.launch = 1 => (lpc = "threw" /\ thrown.from = "recovery")

\* puppeteer found no browser, Chrome was installed and the retry succeeded
C17_Witness ==
    /\ Consented /\ Class = "missingBrowser" /\ opts.engine = "puppeteer"
    /\ lpc = "returned" /\ calls.launch = 2 /\ calls.browserInstall = 1
    /\ pc = "firstGoto"

\* C18: when the first launch failed and auto-install is off or the failure
\* is of no recoverable class, that very error is thrown after one launch
\* attempt, with no prompt, no install and no retry
C18_PropagatedUnchanged ==
    (firstErr # NoErr /\ (~opts.autoInstall \/ Class = "other")) =>
      /\ lpc = "threw" /\ thrown = firstErr
      /\ calls = FirstCall /\ consents = <<>>

\* with auto-install on, a failure that belongs to the other engine's class
C18_Witness ==
    /\ opts.autoInstall /\ opts.engine = "playwright" /\ Class = "other"
    /\ isPuppeteerMissingBrowserError(firstErr)
    /\ lpc = "threw" /\ thrown = firstErr /\ proc = "exited"

\* how far launchWithOptionalInstall has come
Rank(p) ==
    CASE p = "launch1" -> 0
      [] p \in {"promptEngine", "promptPlaywrightBinary", "promptPuppeteerBinary"} -> 1
      [] p = "promptBrowsers" -> 2
      [] p = "launch2" -> 3
      [] OTHER -> 4

\* C19: acquisition only moves forward and ends settled: at most one recovery
\* helper is called and launchEngine at most twice, and when the second
\* launch fails its error is thrown whatever its class
C19_NoRetryLoop ==
    [][/\ calls'.launch <= 2 /\ calls'.ensure <= 1
       /\ calls'.launch = 2 => calls'.ensure = 1
       /\ lpc' # lpc => Rank(lpc') > Rank(lpc)
       /\ lpc = "launch2" =>
            /\ lpc' \in {"launch2", "returned", "threw"}
            /\ calls' = calls
            /\ lpc' = "threw" => thrown'.from = "launch2"
       /\ Settled => UNCHANGED Acq]_vars

\* the engine was installed, and the retry failed with a failure of the
\* other recoverable class
C19_Witness ==
    /\ lpc = "threw" /\ thrown.from = "launch2" /\ proc = "exited"
    /\ Class = "missingEngine"
    /\ FailureClass(thrown, opts.engine) = "missingBrowser"
    /\ calls.launch = 2 /\ calls.ensure = 1

\* auto-install is on, the first failure is recoverable, --yes was not given
\* and the input is not a terminal
Unattended ==
    /\ firstErr # NoErr /\ opts.autoInstall /\ Class # "other"
    /\ ~opts.yes /\ ~opts.isTTY

\* C20 as stated: unattended, nothing is installed or retried and the error
\* thrown is the first launch error, with remediation text in its message
C20_OriginalErrorRaised ==
    (Settled /\ Unattended) =>
      /\ calls.ran = <<>> /\ calls.launch = 1
      /\ thrown.from = "launch1" /\ firstErr.msg \subseteq thrown.msg
      /\ thrown.msg \cap Remediations # {}

\* C20 amended: unattended, every prompt returns no, nothing is installed or
\* retried, and the error thrown is a new one raised by the recovery helper:
\* its message tells what to run and holds nothing of the launch error
C20_DeclinedWithoutTerminal ==
    (Settled /\ Unattended) =>
      /\ lpc = "threw"
      /\ \A i \in 1..Len(consents) : ~consents[i]
      /\ calls.ran = <<>> /\ calls.engineInstall = 0 /\ calls.browserInstall = 0
      /\ calls.launch = 1
      /\ thrown.from = "recovery"
      /\ thrown.msg \cap Remediations # {}
      /\ thrown.msg \cap firstErr.msg = {}

\* a package manager was found, the prompt returned no without asking
C20_Witness ==
    /\ Unattended /\ pickPackageManager # "none"
    /\ lpc = "threw" /\ consents = <<FALSE>> /\ calls.prompt = 1
    /\ proc = "exited"

\* the command line is invalid in one of the four ways: URL, interval,
\* engine, CDP port
InvalidConfig ==
    \/ raw.url.kind \notin {"url", "about"}
    \/ LET n == Number(raw.interval) IN ~(n.kind = "finite" /\ n.milli > 0)
    \/ raw.engine \notin {"playwright", "puppeteer"}
    \/ /\ raw.cdpPort.t = "string"
       /\ LET n == Number(raw.cdpPort)
          IN  ~(n.kind = "finite" /\ n.milli % 1000 = 0
                /\ n.milli >= 1000 /\ n.milli <= MaxPort * 1000)

\* C21: once validation has run on an invalid command line the process has
\* exited with a non-zero status and launchEngine has not been called; an
\* undefined or null port is no reason to exit and leaves CDP off
C21_InvalidConfigExits ==
    /\ (pc # "parse" /\ InvalidConfig) =>
         /\ pc = "rejected" /\ proc = "exited" /\ exitCode > 0
         /\ calls.launch = 0 /\ lpc = "notCalled" /\ session = "none"
    /\ (pc \notin {"parse", "rejected"} /\ raw.cdpPort.t \in {"undefined", "null"}) =>
         opts.cdpPort = Null
    /\ (pc = "rejected" /\ ~InvalidConfig) => raw.recordMaxBytes = Text("0")

\* only the port is wrong: one above the range
C21_Witness ==
    /\ pc = "rejected" /\ proc = "exited" /\ exitCode = 1
    /\ raw.cdpPort = Text("65536") /\ raw.url.kind = "url"
    /\ raw.interval = Text("0.5") /\ raw.engine = "puppeteer"
    /\ raw.recordMaxBytes = Text("1000000")

\* C22: when launchWithOptionalInstall has thrown, no goto or reload has been
\* or is issued, no cycle of the loop has started, there is no session, and
\* the next step of main() ends the process with exit code 1
C22_LaunchFailureIsFatal ==
    [][lpc = "threw" =>
         /\ lastCall = NoCall /\ lastCall' = NoCall
         /\ cyc = NoCycle /\ cyc' = NoCycle
         /\ inFlight = 0 /\ inFlight' = 0
         /\ session = "none" /\ session' = "none"
         /\ pc \in {"launch", "failed"}
         /\ pc = "launch" => (pc' = "failed" /\ proc' = "exited" /\ exitCode' = 1)
         /\ pc = "failed" => (proc = "exited" /\ exitCode = 1)]_vars

\* the engine was installed and the retry failed: the process is gone
C22_Witness ==
    /\ lpc = "threw" /\ pc = "failed" /\ proc = "exited" /\ exitCode = 1
    /\ calls.launch = 2 /\ thrown.from = "launch2" /\ lastCall = NoCall
    /\ opts.yes

\* C24: when the close() called by stop() has rejected, the process has
\* exited
C24_ExitsWhenCloseFails ==
    session = "closeFailed" => (proc = "exited" /\ exitCode # NoCode /\ stopped)

\* close() rejected while a navigation of the loop was still in flight
C24_Witness ==
    /\ session = "closeFailed" /\ proc = "exited" /\ exitCode = 1
    /\ closeCalls = 1 /\ inFlight = 1 /\ cyc.n >= 1

\* C26: firstUrl is the target of the alwaysReset branch as computed at
\* startup; the first call issued is a goto to it, made when no sleep has
\* begun and no cycle has run; when it succeeds the activity clock is set to
\* the current time in the step that starts the first sleep; and a sleep
\* only starts after the first goto or inside the loop
C26_FirstNavigation ==
    [][/\ pc \in {"launch", "firstGoto"} =>
            /\ \E r \in Rnds :
                 firstUrl = IF cfg.cacheBust
                            THEN withCacheBuster(baseUrl, 0, r) ELSE baseUrl
            /\ cyc = NoCycle /\ wakeAt = 0 /\ idle = NoWait
       /\ pc = "launch" => lastCall = NoCall
       /\ (pc = "launch" /\ pc' # "launch" /\ proc' = "running") =>
            /\ pc' = "firstGoto"
            /\ lastCall'.kind = "goto" /\ lastCall'.target = firstUrl
       /\ (pc = "firstGoto" /\ pc' # pc /\ proc' = "running") =>
            /\ lastCall.kind = "goto" /\ lastCall.target = firstUrl
            /\ lastCall' = lastCall /\ cyc' = NoCycle
            /\ curUrl' = firstUrl
            /\ lastActivityAt' = now
            /\ ~stopped => (pc' = "sleep" /\ wakeAt' = now + intervalMs)
       /\ (pc' = "sleep" /\ pc # "sleep") => pc \in {"firstGoto"} \cup LoopNavPcs
                                             \cup TimerPcs]_vars

\* the first load took a while and succeeded: the first sleep has started,
\* the clock was set, nothing else has been issued
C26_Witness ==
    /\ pc = "sleep" /\ cyc = NoCycle /\ now > 0 /\ wakeAt = now + intervalMs
    /\ lastActivityAt = now /\ curUrl = firstUrl /\ cfg.cacheBust
    /\ lastCall.kind = "goto" /\ lastCall.at = 0

\* the steps of the scheduler and of shutdown: something other than the
\* clock, the page and the time changes
SchedulerStep == <<pc, wakeAt, idle, stopped, session, signals, proc, cyc,
                   lastCall, inFlight>>' #
                 <<pc, wakeAt, idle, stopped, session, signals, proc, cyc,
                   lastCall, inFlight>>

\* C27: lastActivityAt never decreases and never exceeds the current time; a
\* page event (a step that is not the scheduler's, with the session there
\* and the time standing) sets it to the current time; a scheduler or
\* shutdown step leaves it alone, except the marking after the first load
C27_ActivityClock ==
    [][/\ lastActivityAt <= lastActivityAt' /\ lastActivityAt' <= now'
       /\ lastActivityAt <= now
       /\ lastActivityAt' # lastActivityAt => (lastActivityAt' = now /\ now' = now)
       /\ (SchedulerStep /\ pc # "firstGoto") => lastActivityAt' = lastActivityAt
       /\ (~SchedulerStep /\ now' = now) =>
            (lastActivityAt' = now /\ session \in {"open", "closing"})
       /\ now' # now => lastActivityAt' = lastActivityAt
       /\ Cardinality(Subscribed) = 7]_vars

\* a page event moved the clock during the sleep of the second cycle, after
\* a refresh had failed
C27_Witness ==
    /\ pc = "sleep" /\ cyc.n = 1 /\ cyc.failed
    /\ lastActivityAt = now /\ now > lastCall.at /\ now < wakeAt /\ wakeAt < now + intervalMs
    /\ session = "open"

\* the calls made so far
Calls == {results[i] : i \in 1..Len(results)}

\* stripQueryParam(x, "_cb")
Strips == {c \in Calls : c.fn = "stripQueryParam" /\ c.param = "_cb"}

Busts == {c \in Calls : c.fn = "withCacheBuster"}

NotMarker(e) == e.name # "_cb"

\* C28: for a string that parses, stripping the marker from what
\* withCacheBuster returned for it gives the same string as stripping the
\* marker from the string itself
C28_MarkerRoundTrip ==
    \A b \in Busts, s1 \in Strips, s2 \in Strips :
        (Parses(b.in) /\ s1.in = b.out /\ s2.in = b.in) => s1.out = s2.out

\* the round trip for a string with two markers that is not in the form
\* toString() writes
C28_Witness ==
    \E b \in Busts, s1 \in Strips, s2 \in Strips :
        /\ b.in = Str("url", 1, <<Other2, Stale, Other, Stale>>, FALSE)
        /\ s1.in = b.out /\ s2.in = b.in /\ s1.out = s2.out
        /\ s1.out # b.in /\ b.out # b.in

\* the outcome of a call that raised
Exception == Str("exception", 0, <<>>, TRUE)

\* C29: for a string that does not parse, stripQueryParam (for any
\* parameter) and withCacheBuster return the string they were given, and do
\* not raise
C29_MalformedUnchanged ==
    \A c \in Calls : ~Parses(c.in) => (c.out = c.in /\ c.out # Exception)

\* both functions were applied to "" or to a string with the text of a
\* marker in it
C29_Witness ==
    /\ arg \in {EmptyStr, Str("bad", 0, <<Stale, Other>>, FALSE)}
    /\ \E c \in Strips : c.in = arg /\ c.out = arg
    /\ \E c \in Busts : c.in = arg /\ c.out = arg

\* C30: stripping the marker from a string that parses removes every
\* parameter named _cb and nothing else: the other parameters keep their
\* values and order, the rest of the URL stays, and without a marker the
\* parameters are those of the input
C30_StripsOnlyMarker ==
    \A c \in Strips :
        Parses(c.in) =>
            /\ c.out.q = SelectSeq(c.in.q, NotMarker)
            /\ c.out.kind = c.in.kind /\ c.out.p = c.in.p
            /\ ~HasParam(c.in.q, "_cb") => c.out.q = c.in.q

\* two markers were removed from among two other parameters
C30_Witness ==
    \E c \in Strips :
        /\ c.in.q = <<Other2, Stale, Other, Stale>>
        /\ c.out.q = <<Other2, Other>>

\* C25 as stated: when the polling has ended without a websocket URL, it
\* ended within the total wait (one poll interval of tolerance), and main()
\* went on to the first navigation
C25_PollingBoundedNotFatal ==
    cdp.got \in {"failed", "noWebSocketUrl", "timedOut"} =>
        /\ cdp.endedAt - cdp.startedAt <= CdpTimeoutMs + CdpPollMs
        /\ lastCall.kind = "goto" /\ lastCall.target = firstUrl
        /\ pc \in {"firstGoto", "sleep", "failed"}

\* C23: no more than one Session has been created, whatever the first launch
\* did and whatever channels were tried; there is one exactly when
\* launchWithOptionalInstall has returned it, and main() holds a session
\* only then
C23_OneSession ==
    /\ eng.sessions <= 1
    /\ eng.sessions = 1 <=> lpc = "returned"
    /\ session # "none" => eng.sessions = 1

\* the first launch failed for want of a browser binary, the binaries were
\* installed, and the second launch fell back from chrome to msedge
C23_Witness ==
    /\ eng.sessions = 1 /\ session = "open"
    /\ calls.launch = 2 /\ calls.browserInstall = 1
    /\ opts.engine = "playwright"
    /\ eng.tried = <<"chrome", "msedge">>
    /\ eng.browsers = 1

\* C31 as stated: two withCacheBuster calls for the same string that parses,
\* made at different timestamps, return different strings, whatever the
\* random suffixes
C31_DistinctAtDistinctTimes ==
    \A b1 \in Busts, b2 \in Busts :
        (Parses(b1.in) /\ b1.in = b2.in /\ b1.t # b2.t) => b1.out # b2.out

\* what the idle timing is made of: the activity clock, the idle wait, the
\* sleeps, the refreshes and the life of the process
Timing == <<pc, now, wakeAt, idle, StopState, curUrl, inFlight, proc,
            exitCode, cyc, lastCall>>

\* C32 as stated, step by step: a step in which the recorder does something
\* does to the idle timing what the same page event does without the
\* recorder (it sets lastActivityAt to the current time) and nothing else,
\* so that runs with and without --record-network stay in lockstep
C32_RecorderLeavesTimingAlone ==
    [][rec' # rec =>
          /\ UNCHANGED Timing
          /\ lastActivityAt' \in {lastActivityAt, now}]_vars

\* the engine package has been imported or a browser launch attempted
EngineTouched == eng.imports > 0 \/ eng.tried # <<>> \/ eng.browsers > 0

\* C33: launchEngine imports an engine module and launches a browser only
\* when the port is valid and the engine is playwright or puppeteer; an
\* invalid port is rejected with the port message whatever the engine name,
\* an unknown engine with a valid port with the engine message, and neither
\* rejection is preceded by an import or a launch
C33_LaunchOnlyWhenValid ==
    LET badPort == normalizePort(raw.cdpPort).thrown
        badEngine == raw.engine \notin Engines
    IN  /\ EngineTouched => ~badPort /\ ~badEngine
        /\ (lpc # "notCalled" /\ badPort) =>
               /\ lpc = "threw"
               /\ thrown.msg = {"CDP port must be an integer between 1 and 65535"}
               /\ ~EngineTouched
        /\ (lpc # "notCalled" /\ ~badPort /\ badEngine) =>
               /\ lpc = "threw"
               /\ thrown.msg = {"Unknown engine:"}
               /\ ~EngineTouched

\* launchEngine("chromium", {cdpPort: "65536"}) was rejected for its port
C33_Witness ==
    /\ raw.engine = "chromium" /\ raw.cdpPort = Text("65536")
    /\ lpc = "threw" /\ thrown.from = "launchEngine"
    /\ eng.imports = 0

\* the step in which the import of the engine package fails and launchEngine
\* rejects
ImportFails == eng'.imports = eng.imports + 1 /\ eng'.step = "import"

\* the error launchWithOptionalInstall has in hand after the step
Reported == IF lpc = "launch1" THEN firstErr' ELSE thrown'

\* ensureEngineInstalled has been entered
EntersEngineInstall ==
    /\ calls'.ensure = calls.ensure + 1
    /\ \/ lpc' = "promptEngine"
       \/ lpc' = "threw" /\ "Install pnpm or npm, then install the engine" \in thrown'.msg

\* C34 as stated: a failed import is reported as "Failed to import
\* '<engine>'", is classified as missing package for that engine only, and
\* with --auto-install always enters the engine-install recovery
C34_ImportFailureAlwaysRecovers ==
    [][ImportFails =>
          /\ includes(Reported.msg, FailedToImport(opts.engine))
          /\ \A e \in Engines : isMissingEngineError(Reported, e) <=> e = opts.engine
          /\ opts.autoInstall => EntersEngineInstall]_vars

\* C34 amended: the recovery is entered when the import fails in the first
\* launch; when it fails in the retry launch the error is the same and is
\* classified the same, but it leaves launchWithOptionalInstall as it is
C34_ImportFailureRecoversOnce ==
    [][ImportFails =>
          /\ includes(Reported.msg, FailedToImport(opts.engine))
          /\ \A e \in Engines : isMissingEngineError(Reported, e) <=> e = opts.engine
          /\ (opts.autoInstall /\ lpc = "launch1") => EntersEngineInstall
          /\ lpc = "launch2" =>
                 /\ lpc' = "threw" /\ thrown' = Reported
                 /\ calls' = calls]_vars

\* the import of puppeteer failed with a cause that does not name the
\* package, and the user is asked whether to install it
C34_Witness ==
    /\ opts.engine = "puppeteer" /\ opts.autoInstall
    /\ eng.imports = 1 /\ eng.step = "import"
    /\ firstErr.msg = {FailedToImport("puppeteer"), "Install it in this project",
                       "Unexpected token"}
    /\ lpc = "promptEngine" /\ calls.ensure = 1

\* the recovery has failed: launchWithOptionalInstall threw an error of the
\* helper and launchEngine was not called again
RecoveryFailed ==
    /\ lpc = "threw" /\ thrown.from = "recovery"
    /\ calls.launch = 1

\* C35: when no package manager is found or an install command exits with a
\* non-zero status, the recovery fails with an error and the launch is not
\* retried; the browser install that follows an engine install is run only
\* after the engine install exited with 0
C35_FailedInstallNoRetry ==
    [][/\ (calls'.failedInstall > 0 => RecoveryFailed')
       /\ (calls'.ensure > 0 /\ pickPackageManager = "none") =>
              /\ RecoveryFailed'
              /\ "No supported package manager found" \in thrown'.msg
              /\ calls'.ran = <<>>
       /\ (calls'.browserInstall > calls.browserInstall /\ calls.engineInstall > 0) =>
              /\ lpc = "promptBrowsers"
              /\ calls.failedInstall = 0
              /\ calls.ran = <<runInstallEngine(pickPackageManager, opts.engine)>>]_vars

\* the engine install succeeded, the browser install that followed exited
\* with 1, and the launch was not retried
C35_Witness ==
    /\ RecoveryFailed
    /\ calls.engineInstall = 1 /\ calls.browserInstall = 1
    /\ calls.failedInstall = 1
    /\ "installed, but failed to install" \in thrown.msg

\* a launch attempt settles in this step
Attempt == Len(eng'.tried) = Len(eng.tried) + 1

RefreshAttempt == cyc'.n # cyc.n \/ cyc'.issued # cyc.issued

\* a navigation call, or the attempt that failed before its call, settles
\* in this step
Settles == inFlight' < inFlight \/ (cyc'.urlFail /\ ~cyc.urlFail)

\* C37: a refresh attempt starts only when a timer of the loop fires, with
\* no call in flight, in a new cycle, and at least one interval after the
\* interval sleep began; that sleep began in the step in which the previous
\* attempt or the first load settled, so a failed attempt is followed by a
\* full sleep like a successful one
C37_FullSleepBeforeAttempt ==
    [][/\ RefreshAttempt =>
              /\ pc \in TimerPcs /\ now >= wakeAt
              /\ inFlight = 0
              /\ cyc'.n = cyc.n + 1 /\ cyc'.issued <= 1
              /\ now >= idle.sleptFrom + intervalMs
       /\ (Settles /\ proc' = "running" /\ ~stopped) =>
              /\ pc' = "sleep"
              /\ idle'.sleptFrom = now
              /\ wakeAt' = now + intervalMs]_vars

\* the second refresh is in flight: it was issued a full interval after the
\* first one settled, which took some time
C37_Witness ==
    /\ cyc.n = 2 /\ cyc.issued = 1
    /\ pc \in LoopNavPcs
    /\ lastCall.at >= idle.sleptFrom + intervalMs
    /\ idle.sleptFrom > intervalMs

\* main() was left by the rejection of the first goto
FirstGotoFailed == pc = "failed" /\ lpc = "returned"

\* C40: when the first goto does not bring the page to firstUrl, main() is
\* left in that step: the process ends with exit code 1, no sleep has begun,
\* no cycle has started, and the first goto remains the only call issued
C40_FirstGotoFailureIsFatal ==
    [][/\ (pc = "firstGoto" /\ pc' # pc /\ curUrl' # firstUrl) => FirstGotoFailed'
       /\ FirstGotoFailed' =>
              /\ proc' = "exited" /\ exitCode' = 1
              /\ cyc' = NoCycle /\ wakeAt' = 0
              /\ inFlight' = 0
              /\ lastCall'.kind = "goto" /\ lastCall'.target = firstUrl
              /\ lastCall'.cycle = 0]_vars

\* the first goto was rejected after a while, with the session open
C40_Witness ==
    /\ FirstGotoFailed /\ proc = "exited" /\ exitCode = 1
    /\ session = "open" /\ now > 0 /\ curUrl = AboutBlank
    /\ lastCall.kind = "goto"

\* a refresh attempt starts in this step
AttemptIssued == cyc'.n = cyc.n + 1

\* C38: without --only-if-idle, once main() has entered its loop, refresh
\* attempts are started again and again without end, whatever the outcome
\* of each attempt
C38_RefreshesForever ==
    (~cfg.onlyIfIdle /\ <>(pc = "sleep")) => []<><<AttemptIssued>>_vars

\* the loop runs without --only-if-idle and an attempt has failed
C38_Witness ==
    /\ ~cfg.onlyIfIdle /\ pc = "sleep" /\ cyc.n >= 1 /\ cyc.failed
    /\ proc = "running" /\ ~stopped

\* C39: with --only-if-idle, once main() has entered its loop, either page
\* events keep arriving without end or refresh attempts are started again
\* and again: when the events stop, every idle wait returns and its refresh
\* is issued
C39_IdleWaitReturns ==
    (cfg.onlyIfIdle /\ <>(pc = "sleep")) =>
        ([]<><<Activity>>_vars \/ []<><<AttemptIssued>>_vars)

\* the idle wait polled more than once and then the refresh was issued
C39_Witness ==
    /\ cfg.onlyIfIdle /\ idle.polls >= 1 /\ pc \in LoopNavPcs
    /\ cyc.n >= 1 /\ cyc.issued = 1

====
